---- MODULE Spec2Model ----
(***************************************************************************)
(* State-machine model of the network-monitor core:                        *)
(*   - AlertManager        (src/src/security/alerts.py), called by one     *)
(*                         thread and by several                           *)
(*   - SecurityAnalyzer    (src/src/security/analyzer.py), the checks of   *)
(*                         a cycle, the port-scan cache, device_history    *)
(*   - DeviceCollector     (src/src/collectors/devices.py), reconciliation *)
(*                         and the merge of the scan results               *)
(*   - BaseCollector       (src/src/collectors/base.py), start/stop/loop   *)
(*                         and one firing of each collector class          *)
(*   - NetworkMonitorManager (src/src/core/manager.py), its constructor,   *)
(*                         start/stop and the scheduler threads            *)
(* Time is the value datetime.now() / time.time() returns, in seconds.     *)
(* One call of a method runs at one clock value.                           *)
(***************************************************************************)
EXTENDS Integers, Sequences, FiniteSets, TLC

VARIABLES
    now,               \* the clock read by datetime.now() / time.time()
    alert_history,     \* AlertManager.alert_history
    last_alert_time,   \* AlertManager.last_alert_time
    last_call,         \* arguments and return value of the latest trigger_alert
                       \* call made directly on the AlertManager
    smtp,              \* the mail configuration and server: "unconfigured" (no
                       \* alert_email/smtp_server/smtp_port), "up" or "down"
    last_email,        \* what that call did about the notification e-mail
    running,           \* BaseCollector.running
    thread,            \* BaseCollector.thread (0: None)
    last_collection_time,  \* BaseCollector._last_collection_time
    loop_pc,           \* where each _collection_loop thread is
    wake,              \* when each loop thread's time.sleep(1) returns
    ctl_pc,            \* where the caller of start() / stop() is
    join_deadline,     \* when stop()'s thread.join(timeout=interval) gives up
    ctl_last,          \* how the latest start() / stop() call ended
    tick,              \* the latest collect/process/store attempt and how it ended
    devices,           \* the devices collection of MongoDB, by MAC
    sightings,         \* the sightings store_data has reconciled, in order
    arp_devices,       \* the list _scan_network_arp returned
    ping_devices,      \* the list _scan_network_ping returned
    merged,            \* the list _merge_scan_results returned, once it ran
    port_scan_cache,   \* SecurityAnalyzer.port_scan_cache
    last_run,          \* when the scheduler last ran the security analysis
    events,            \* the events collection of MongoDB, in insertion order
    known_ips,         \* SecurityAnalyzer.known_ips
    device_history,    \* SecurityAnalyzer.device_history, by MAC
    associations,      \* the (MAC, IP) pairs the registry has given the analyzer
    calls,             \* the checks the latest analyze() entered and the
                       \* trigger_alert / create_event calls they made, in order
    manager_running,   \* NetworkMonitorManager.running
    jobs,              \* next_run of each security analysis job of the scheduler
    scheduler_thread,  \* NetworkMonitorManager.scheduler_thread (0: not set)
    sched_pc,          \* where each _scheduler_thread thread is
    sched_wake,        \* when each scheduler thread's time.sleep(1) returns
    sched_pending,     \* the due jobs each thread's run_pending() still has to run
    mgr_ctl,           \* where the caller of the manager's start() / stop() is,
                       \* when its join gives up and how its latest call ended
    writers,           \* the threads inside store_data's loop body: the device
                       \* each one reconciles and what get_device_by_mac gave it
    firing,            \* one collector's current collect/process/store round
    store_calls,       \* the store_data calls of that collector, in order
    callers,           \* the threads inside trigger_alert: where each one is,
                       \* its arguments and the timestamp it took
    call_log,          \* the trigger_alert calls that returned, in order
    recent_alerts,     \* what the latest get_recent_alerts() returned
    ctor               \* NetworkMonitorManager.__init__: the statement it is
                       \* at, the configuration and what self holds so far

amVars == <<alert_history, last_alert_time, last_call, smtp, last_email>>

colVars == <<running, thread, last_collection_time, loop_pc, wake, ctl_pc,
             join_deadline, ctl_last, tick>>

devVars == <<devices, sightings>>

saVars == <<port_scan_cache, last_run, events, known_ips, device_history,
            associations, calls>>

mergeVars == <<arp_devices, ping_devices, merged>>

\* the components a specification of another component leaves at rest
mgrVars == <<manager_running, jobs, scheduler_thread, sched_pc, sched_wake,
             sched_pending, mgr_ctl>>

wrVars == <<writers>>

fireVars == <<firing, store_calls>>

atVars == <<callers, call_log, recent_alerts>>

\* the components modelled last
ctorVars == <<ctor>>

extVars == <<fireVars, atVars, ctorVars>>

restVars == <<mergeVars, mgrVars, wrVars, extVars>>

vars == <<now, amVars, colVars, devVars, saVars, restVars>>

(***************************************************************************)
(* Bounds of the model.                                                    *)
(***************************************************************************)
MaxAlertTime == 1800
MaxAlerts == 2
\* the last clock value of a burst of alerts, one per second
MaxBurstTime == 102

(***************************************************************************)
(* AlertManager                                                            *)
(***************************************************************************)
EventTypes == {"port_scan", "new_device"}
Severities == {"high", "medium", "low"}

\* dict.get() of an absent key: None
NoTime == -1

MediumThrottle == 300
LowThrottle == 1800
HistoryLimit == 100

NoCall == [event_type |-> "none", severity |-> "none", result |-> FALSE]

\* _should_send_alert with the throttle of medium alerts left out
ShouldSendAlert_NoMedium(lat, event_type, severity, t) ==
    IF severity = "high" THEN TRUE
    ELSE IF lat[event_type] = NoTime THEN TRUE
    ELSE severity # "low" \/ t - lat[event_type] >= LowThrottle

\* _should_send_alert with the early return of high alerts left out:
\* high is throttled like medium
ShouldSendAlert_HighThrottled(lat, event_type, severity, t) ==
    IF lat[event_type] = NoTime THEN TRUE
    ELSE IF severity \in {"high", "medium"} /\ t - lat[event_type] < MediumThrottle
         THEN FALSE
    ELSE IF severity = "low" /\ t - lat[event_type] < LowThrottle THEN FALSE
    ELSE TRUE

\* AlertManager._should_send_alert(event_type, severity), evaluated at clock t
\* on the last-alert-time map lat
ShouldSendAlert(lat, event_type, severity, t) ==
    IF severity = "high" THEN TRUE
    ELSE IF lat[event_type] = NoTime THEN TRUE
    ELSE LET time_diff == t - lat[event_type]
         IN  IF severity = "medium" /\ time_diff < MediumThrottle THEN FALSE
             ELSE IF severity = "low" /\ time_diff < LowThrottle THEN FALSE
             ELSE TRUE

AlertData(event_type, severity, timestamp) ==
    [event_type |-> event_type, severity |-> severity, timestamp |-> timestamp]

\* the append keeping the first HistoryLimit entries of the history
AppendAlert_KeepsOldest(history, alert_data) ==
    LET h == Append(history, alert_data)
    IN  IF Len(h) > HistoryLimit THEN SubSeq(h, 1, HistoryLimit) ELSE h

\* alert_history.append(alert_data); keep the last HistoryLimit entries
AppendAlert(history, alert_data) ==
    LET h == Append(history, alert_data)
    IN  IF Len(h) > HistoryLimit
        THEN SubSeq(h, Len(h) - HistoryLimit + 1, Len(h))
        ELSE h

\* trigger_alert keeping a throttled alert in the history all the same
TriggerAlertEffect_LogsThrottled(history, lat, event_type, severity, t) ==
    IF ~ShouldSendAlert(lat, event_type, severity, t)
    THEN [alert_history |-> AppendAlert(history, AlertData(event_type, severity, t)),
          last_alert_time |-> lat, result |-> FALSE]
    ELSE [alert_history |-> AppendAlert(history, AlertData(event_type, severity, t)),
          last_alert_time |-> [lat EXCEPT ![event_type] = t],
          result |-> TRUE]

\* trigger_alert recording the time of a throttled alert too, so that a
\* suppressed alert extends the throttle window
TriggerAlertEffect_Sliding(history, lat, event_type, severity, t) ==
    IF ~ShouldSendAlert(lat, event_type, severity, t)
    THEN [alert_history |-> history,
          last_alert_time |-> [lat EXCEPT ![event_type] = t], result |-> FALSE]
    ELSE [alert_history |-> AppendAlert(history, AlertData(event_type, severity, t)),
          last_alert_time |-> [lat EXCEPT ![event_type] = t],
          result |-> TRUE]

\* The effect of AlertManager.trigger_alert(event_type, severity, ...) at
\* clock t on the manager's state, and its return value.
TriggerAlertEffect(history, lat, event_type, severity, t) ==
    IF ~ShouldSendAlert(lat, event_type, severity, t)
    THEN [alert_history |-> history, last_alert_time |-> lat, result |-> FALSE]
    ELSE [alert_history |-> AppendAlert(history, AlertData(event_type, severity, t)),
          last_alert_time |-> [lat EXCEPT ![event_type] = t],
          result |-> TRUE]

SmtpStates == {"unconfigured", "up", "down"}

\* _send_email_alert: False when e-mail is not configured or sending raises
\* (the exception is caught), True when the message was sent
SendEmailAlert(smtp_state) == smtp_state = "up"

\* trigger_alert undoing its bookkeeping and returning False when the e-mail
\* could not be sent
TriggerAlertCall_FailureUnwinds(history, lat, event_type, severity, t, smtp_state) ==
    LET e == TriggerAlertEffect(history, lat, event_type, severity, t)
        mailed == smtp_state # "unconfigured" /\ severity \in {"high", "medium"}
    IN  IF e.result /\ mailed /\ ~SendEmailAlert(smtp_state)
        THEN [alert_history |-> history, last_alert_time |-> lat,
              result |-> FALSE, email |-> "failed"]
        ELSE [alert_history |-> e.alert_history,
              last_alert_time |-> e.last_alert_time,
              result |-> e.result,
              email |-> IF ~e.result THEN "none"
                        ELSE IF mailed THEN "sent" ELSE "skipped"]

\* AlertManager.trigger_alert as a whole: the bookkeeping, then, for a passed
\* high or medium alert with e-mail configured, _send_email_alert, whose
\* result is ignored
TriggerAlertCall(history, lat, event_type, severity, t, smtp_state) ==
    LET e == TriggerAlertEffect(history, lat, event_type, severity, t)
        mailed == smtp_state # "unconfigured" /\ severity \in {"high", "medium"}
    IN  [alert_history |-> e.alert_history,
         last_alert_time |-> e.last_alert_time,
         result |-> e.result,
         email |-> IF ~e.result THEN "none"
                   ELSE IF ~mailed THEN "skipped"
                   ELSE IF SendEmailAlert(smtp_state) THEN "sent" ELSE "failed"]

trigger_alert(event_type, severity) ==
    /\ LET c == TriggerAlertCall(alert_history, last_alert_time,
                                 event_type, severity, now, smtp)
       IN  /\ alert_history' = c.alert_history
           /\ last_alert_time' = c.last_alert_time
           /\ last_call' = [event_type |-> event_type, severity |-> severity,
                            result |-> c.result]
           /\ last_email' = c.email
    /\ UNCHANGED <<now, smtp>>

AlertTickSteps == {120, 240, 1200}

AlertTick ==
    /\ \E d \in AlertTickSteps :
          /\ now + d <= MaxAlertTime
          /\ now' = now + d
    /\ UNCHANGED amVars

\* AlertManager.__init__
AlertManagerInit ==
    /\ alert_history = <<>>
    /\ last_alert_time = [e \in EventTypes |-> NoTime]
    /\ last_call = NoCall
    /\ smtp = "up"
    /\ last_email = "none"

\* a call of trigger_alert, in a run that passes at most MaxAlerts alerts
TriggerAlert ==
    \E e \in EventTypes, s \in Severities :
        /\ trigger_alert(e, s)
        /\ Len(alert_history') <= MaxAlerts

\* the mail server goes down or comes back
SmtpChange ==
    /\ smtp # "unconfigured"
    /\ smtp' = IF smtp = "up" THEN "down" ELSE "up"
    /\ UNCHANGED <<now, alert_history, last_alert_time, last_call, last_email>>

\* a call of trigger_alert in a burst: the first alert is any, the later
\* ones are high or medium port_scan alerts, at most one passing per second
BurstAlert ==
    \E e \in EventTypes, s \in Severities :
        /\ alert_history # <<>> => (e = "port_scan" /\ s # "low")
        /\ \A i \in DOMAIN alert_history : alert_history[i].timestamp # now
        /\ trigger_alert(e, s)

\* the next second of the burst begins once an alert passed in this one
BurstTick ==
    /\ now < MaxBurstTime
    /\ \E i \in DOMAIN alert_history : alert_history[i].timestamp = now
    /\ now' = now + 1
    /\ UNCHANGED amVars

(***************************************************************************)
(* BaseCollector: start(), stop() and the _collection_loop threads         *)
(***************************************************************************)
\* the collection interval, in seconds (the polling sleep is 1 s)
Interval == 2
SleepTick == 1
\* the loop threads one collector may create, and the last clock value
MaxThreads == 2
MaxCollectorTime == 7

Threads == 1..MaxThreads

Alive(t) == loop_pc[t] \notin {"unborn", "dead"}

\* how one collect(); process_data(); store_data() attempt ends: all three
\* return, or one of them raises
Outcomes == {"ok", "collect_raises", "process_raises", "store_raises"}

\* no attempt yet (by: 0 is the caller of start(), else the loop thread;
\* at: the clock value at which the attempt ended)
NoTick == [by |-> 0, outcome |-> "none", stored |-> FALSE, at |-> 0]

\* the attempt stamping the collection time although an exception was caught
CollectEffect_StampsFailure(outcome, last_time, t) ==
    [last_collection_time |-> t,
     stored |-> outcome \in {"ok", "store_raises"},
     caught |-> outcome # "ok"]

\* try: data = collect(); processed = process_data(data);
\* store_data(processed); _last_collection_time = time.time()
\* except Exception: logged. The collection time after the attempt at clock
\* t, whether store_data was called and whether an exception was caught.
CollectEffect(outcome, last_time, t) ==
    [last_collection_time |-> IF outcome = "ok" THEN t ELSE last_time,
     stored |-> outcome \in {"ok", "store_raises"},
     caught |-> outcome # "ok"]

\* BaseCollector.__init__
CollectorInit ==
    /\ running = FALSE
    /\ thread = 0
    /\ last_collection_time = 0
    /\ loop_pc = [t \in Threads |-> "unborn"]
    /\ wake = [t \in Threads |-> 0]
    /\ ctl_pc = "idle"
    /\ join_deadline = 0
    /\ ctl_last = "none"
    /\ tick = NoTick

\* start() without the test of self.running
start_NoGuard ==
    /\ ctl_pc = "idle"
    /\ UNCHANGED tick
    /\ \E t \in Threads : loop_pc[t] = "unborn"
    /\ running' = TRUE
    /\ ctl_pc' = "start_collect"
    /\ UNCHANGED <<now, thread, last_collection_time, loop_pc, wake,
                   join_deadline, ctl_last>>

\* BaseCollector.start(), up to the initial collection: a no-op when the
\* collector is running, else running is set and the initial collect() begins
start ==
    /\ ctl_pc = "idle"
    /\ UNCHANGED tick
    /\ IF running
       THEN /\ ctl_last' = "start_noop"
            /\ UNCHANGED <<now, running, thread, last_collection_time, loop_pc,
                           wake, ctl_pc, join_deadline>>
       ELSE /\ \E t \in Threads : loop_pc[t] = "unborn"
            /\ running' = TRUE
            /\ ctl_pc' = "start_collect"
            /\ UNCHANGED <<now, thread, last_collection_time, loop_pc, wake,
                           join_deadline, ctl_last>>

\* start(): the initial collect/process/store attempt ends with outcome,
\* then the loop thread is created and started
StartCollectStep(outcome) ==
    /\ ctl_pc = "start_collect"
    /\ LET e == CollectEffect(outcome, last_collection_time, now)
       IN  /\ last_collection_time' = e.last_collection_time
           /\ tick' = [by |-> 0, outcome |-> outcome, stored |-> e.stored,
                       at |-> now]
    /\ LET t == CHOOSE u \in Threads :
                    loop_pc[u] = "unborn" /\ \A v \in Threads : v < u => loop_pc[v] # "unborn"
       IN  /\ thread' = t
           /\ loop_pc' = [loop_pc EXCEPT ![t] = "test_running"]
    /\ ctl_pc' = "idle"
    /\ ctl_last' = "start"
    /\ UNCHANGED <<now, running, wake, join_deadline>>

StartCollect == \E outcome \in Outcomes : StartCollectStep(outcome)

\* BaseCollector.stop(): a no-op when not running, else running is cleared
\* and the loop thread, if alive, is joined for at most interval seconds
stop ==
    /\ ctl_pc = "idle"
    /\ UNCHANGED tick
    /\ IF ~running
       THEN /\ ctl_last' = "stop_noop"
            /\ UNCHANGED <<now, running, thread, last_collection_time, loop_pc,
                           wake, ctl_pc, join_deadline>>
       ELSE /\ running' = FALSE
            /\ IF thread # 0 /\ Alive(thread)
               THEN /\ ctl_pc' = "joining"
                    /\ join_deadline' = now + Interval
                    /\ UNCHANGED ctl_last
               ELSE /\ ctl_last' = "stop"
                    /\ UNCHANGED <<ctl_pc, join_deadline>>
            /\ UNCHANGED <<now, thread, last_collection_time, loop_pc, wake>>

\* thread.join returns because the loop thread ended
JoinReturn ==
    /\ ctl_pc = "joining"
    /\ UNCHANGED tick
    /\ ~Alive(thread)
    /\ ctl_pc' = "idle"
    /\ ctl_last' = "stop"
    /\ UNCHANGED <<now, running, thread, last_collection_time, loop_pc, wake,
                   join_deadline>>

\* thread.join(timeout=self.interval) gives up: the thread is still alive
JoinTimeout ==
    /\ ctl_pc = "joining"
    /\ UNCHANGED tick
    /\ Alive(thread)
    /\ now >= join_deadline
    /\ ctl_pc' = "idle"
    /\ ctl_last' = "stop_timeout"
    /\ UNCHANGED <<now, running, thread, last_collection_time, loop_pc, wake,
                   join_deadline>>

\* _collection_loop: while self.running
LoopTestRunning ==
    \E t \in Threads :
        /\ loop_pc[t] = "test_running"
        /\ UNCHANGED tick
        /\ loop_pc' = [loop_pc EXCEPT ![t] = IF running THEN "test_elapsed" ELSE "dead"]
        /\ UNCHANGED <<now, running, thread, last_collection_time, wake, ctl_pc,
                       join_deadline, ctl_last>>

\* _collection_loop: if time_since_last >= self.interval, collect() begins,
\* else time.sleep(1)
LoopTestElapsed ==
    \E t \in Threads :
        /\ loop_pc[t] = "test_elapsed"
        /\ UNCHANGED tick
        /\ IF now - last_collection_time >= Interval
           THEN /\ loop_pc' = [loop_pc EXCEPT ![t] = "collecting"]
                /\ UNCHANGED wake
           ELSE /\ loop_pc' = [loop_pc EXCEPT ![t] = "sleeping"]
                /\ wake' = [wake EXCEPT ![t] = now + SleepTick]
        /\ UNCHANGED <<now, running, thread, last_collection_time, ctl_pc,
                       join_deadline, ctl_last>>

\* _collection_loop: the collect/process/store attempt of thread t ends with
\* outcome; then time.sleep(1)
LoopCollectStep(t, outcome) ==
    /\ loop_pc[t] = "collecting"
    /\ LET e == CollectEffect(outcome, last_collection_time, now)
       IN  /\ last_collection_time' = e.last_collection_time
           /\ tick' = [by |-> t, outcome |-> outcome, stored |-> e.stored,
                       at |-> now]
    /\ loop_pc' = [loop_pc EXCEPT ![t] = "sleeping"]
    /\ wake' = [wake EXCEPT ![t] = now + SleepTick]
    /\ UNCHANGED <<now, running, thread, ctl_pc, join_deadline, ctl_last>>

LoopCollect == \E t \in Threads, outcome \in Outcomes : LoopCollectStep(t, outcome)

\* _collection_loop: time.sleep(1) returns
LoopWake ==
    \E t \in Threads :
        /\ loop_pc[t] = "sleeping"
        /\ UNCHANGED tick
        /\ now >= wake[t]
        /\ loop_pc' = [loop_pc EXCEPT ![t] = "test_running"]
        /\ UNCHANGED <<now, running, thread, last_collection_time, wake, ctl_pc,
                       join_deadline, ctl_last>>

\* One second passes. The tests of the loop, the return of a sleep that is
\* over and the return of join take no time; a collect() in flight and the
\* caller between two calls take any time.
CollectorTick ==
    /\ now < MaxCollectorTime
    /\ \A t \in Threads :
          /\ loop_pc[t] \notin {"test_running", "test_elapsed"}
          /\ loop_pc[t] = "sleeping" => now < wake[t]
    /\ ctl_pc = "joining" => (Alive(thread) /\ now < join_deadline)
    /\ now' = now + 1
    /\ UNCHANGED <<colVars, devVars, saVars, restVars>>

(***************************************************************************)
(* DeviceCollector: enrichment and reconciliation with the registry        *)
(***************************************************************************)
\* sightings reconciled in one run, and the last clock value
MaxSightings == 3
MaxDeviceTime == 3

\* a MAC address: its first three octets (the OUI) and the rest
MACs == {[oui |-> "00:14:22", nic |-> "11:22:33"],
         [oui |-> "aa:bb:cc", nic |-> "11:22:33"]}
IPs == {"192.168.1.50", "192.168.1.77"}
\* what _get_hostname returns: the name found, or "" when the lookups fail
Hostnames == {"", "macbook"}

\* find_one() finding no document: None
NoDevice == [mac |-> "none"]

\* _get_vendor_from_mac: the vendor of the OUI, or "Unknown"
GetVendorFromMac(mac) ==
    CASE mac.oui = "00:00:0c" -> "Cisco"
      [] mac.oui = "00:17:c8" -> "Apple"
      [] mac.oui = "00:14:22" -> "Dell"
      [] mac.oui = "00:1c:c4" -> "Intel"
      [] OTHER -> "Unknown"

\* _identify_device_type on "hostname vendor" in lower case: the first type
\* of DEVICE_PATTERNS with a pattern found in it ("ap" of router is found in
\* "apple", "mac" of computer in "macbook"), else "unknown"
IdentifyDeviceType(hostname, vendor) ==
    IF vendor = "Apple" THEN "router"
    ELSE IF hostname = "macbook" THEN "computer"
    ELSE "unknown"

\* one element of _enrich_device_data's result for a scan result
\* {ip, mac, last_seen}: hostname, vendor and device_type are always set
EnrichDevice(mac, ip, hostname, last_seen) ==
    [mac |-> mac, ip |-> ip, last_seen |-> last_seen,
     hostname |-> hostname,
     vendor |-> GetVendorFromMac(mac),
     device_type |-> IdentifyDeviceType(hostname, GetVendorFromMac(mac)),
     first_seen |-> last_seen]

\* dict.get(key, default)
Get(d, key, default) == IF key \in DOMAIN d THEN d[key] ELSE default

IpEntry(ip, first_seen, last_seen) ==
    [ip |-> ip, first_seen |-> first_seen, last_seen |-> last_seen]

\* _update_ip_history appending an entry for every sighting
UpdateIpHistory_AlwaysAppend(ip_history, current_ip, timestamp) ==
    Append(ip_history, IpEntry(current_ip, timestamp, timestamp))

\* DeviceCollector._update_ip_history
UpdateIpHistory(ip_history, current_ip, timestamp) ==
    IF ip_history = <<>>
    THEN <<IpEntry(current_ip, timestamp, timestamp)>>
    ELSE IF \E i \in DOMAIN ip_history : ip_history[i].ip = current_ip
    THEN LET i == CHOOSE k \in DOMAIN ip_history :
                      /\ ip_history[k].ip = current_ip
                      /\ \A l \in DOMAIN ip_history :
                            ip_history[l].ip = current_ip => k <= l
         IN  [ip_history EXCEPT ![i].last_seen = timestamp]
    ELSE Append(ip_history, IpEntry(current_ip, timestamp, timestamp))

\* the update document with first_seen taken from the new sighting
UpdateDoc_FirstSeenReset(existing_device, device) ==
    [first_seen |-> device.last_seen,
     last_seen |-> device.last_seen,
     ip |-> device.ip,
     hostname |-> Get(device, "hostname", Get(existing_device, "hostname", "")),
     vendor |-> Get(device, "vendor", Get(existing_device, "vendor", "Unknown")),
     device_type |-> Get(device, "device_type",
                         Get(existing_device, "device_type", "unknown")),
     ip_history |-> UpdateIpHistory(Get(existing_device, "ip_history", <<>>),
                                    device.ip, device.last_seen)]

\* store_data: the document passed to update_device for an existing device
UpdateDoc(existing_device, device) ==
    [first_seen |-> Get(existing_device, "first_seen", device.last_seen),
     last_seen |-> device.last_seen,
     ip |-> device.ip,
     hostname |-> Get(device, "hostname", Get(existing_device, "hostname", "")),
     vendor |-> Get(device, "vendor", Get(existing_device, "vendor", "Unknown")),
     device_type |-> Get(device, "device_type",
                         Get(existing_device, "device_type", "unknown")),
     ip_history |-> UpdateIpHistory(Get(existing_device, "ip_history", <<>>),
                                    device.ip, device.last_seen)]

\* store_data: the document passed to create_device for a new device
CreateDoc(device) ==
    [mac |-> device.mac,
     ip |-> device.ip,
     hostname |-> Get(device, "hostname", ""),
     vendor |-> Get(device, "vendor", "Unknown"),
     device_type |-> Get(device, "device_type", "unknown"),
     first_seen |-> device.last_seen,
     last_seen |-> device.last_seen,
     ip_history |-> <<IpEntry(device.ip, device.last_seen, device.last_seen)>>]

\* an update that only adds the fields the document does not have yet
MongoSet_KeepsStored(doc, update_data) ==
    [k \in DOMAIN doc \cup DOMAIN update_data |->
        IF k \in DOMAIN doc THEN doc[k] ELSE update_data[k]]

\* MongoDBStorage.update_device: {"$set": update_data} on the document
MongoSet(doc, update_data) ==
    [k \in DOMAIN doc \cup DOMAIN update_data |->
        IF k \in DOMAIN update_data THEN update_data[k] ELSE doc[k]]

\* store_data, one device of the snapshot: the registry document of its MAC
\* after get_device_by_mac and update_device or create_device
StoreDevice(existing_device, device) ==
    IF existing_device # NoDevice
    THEN MongoSet(existing_device, UpdateDoc(existing_device, device))
    ELSE CreateDoc(device)

\* DeviceCollector.__init__ on an empty registry
DeviceInit ==
    /\ devices = [m \in MACs |-> NoDevice]
    /\ sightings = <<>>

\* One collection: collect() scans and enriches the devices of the MACs in
\* found (one record per MAC after _merge_scan_results), and store_data
\* reconciles each of them with the registry.
store_data ==
    \E found \in (SUBSET MACs) \ {{}} :
    \E ip \in [found -> IPs], hostname \in [found -> Hostnames] :
        LET data == [m \in found |-> EnrichDevice(m, ip[m], hostname[m], now)]
            order == CHOOSE q \in [1..Cardinality(found) -> found] :
                         \A i, j \in DOMAIN q : i # j => q[i] # q[j]
        IN  /\ Len(sightings) + Cardinality(found) <= MaxSightings
            /\ devices' = [m \in MACs |->
                              IF m \in found THEN StoreDevice(devices[m], data[m])
                              ELSE devices[m]]
            /\ sightings' = sightings \o
                   [i \in 1..Cardinality(found) |->
                       [mac |-> order[i], ip |-> ip[order[i]], timestamp |-> now]]
            /\ UNCHANGED now

DeviceTick ==
    /\ now < MaxDeviceTime
    /\ now' = now + 1
    /\ UNCHANGED devVars

(***************************************************************************)
(* store_data run by several threads on the one registry: each reads the   *)
(* device (get_device_by_mac) and later writes it (update_device or        *)
(* create_device); the two calls of one thread are separate steps.         *)
(***************************************************************************)
\* the threads in store_data, the reconciliations they make in all, and the
\* last clock value
MaxWriters == 2
MaxWrites == 3
MaxWriterTime == 2

Writers == 1..MaxWriters

IdleWriter == [pc |-> "idle", existing |-> NoDevice, device |-> NoDevice]

WritersInit == writers = [w \in Writers |-> IdleWriter]

\* store_data after get_device_by_mac returned existing_device: what
\* update_device / create_device make of the document stored by then.
\* create_device on a MAC inserted meanwhile gets DuplicateKeyError and calls
\* update_device with its whole document, which the server applies or
\* rejects (the document insert_one was given carries an _id of its own).
WriteDevice(stored, existing_device, device, applied) ==
    IF existing_device # NoDevice
    THEN MongoSet(stored, UpdateDoc(existing_device, device))
    ELSE IF stored = NoDevice THEN CreateDoc(device)
    ELSE IF applied THEN MongoSet(stored, CreateDoc(device))
    ELSE stored

\* existing_device = self.mongo_db.get_device_by_mac(mac)
WriterRead ==
    \E w \in Writers, m \in MACs, ip \in IPs, hostname \in Hostnames :
        /\ writers[w].pc = "idle"
        /\ Len(sightings)
              + Cardinality({v \in Writers : writers[v].pc = "read"}) < MaxWrites
        /\ writers' = [writers EXCEPT ![w] =
                          [pc |-> "read",
                           existing |-> devices[m],
                           device |-> EnrichDevice(m, ip, hostname, now)]]
        /\ UNCHANGED <<now, devVars>>

\* self.mongo_db.update_device(...) / self.mongo_db.create_device(...)
WriterWrite ==
    \E w \in Writers, applied \in BOOLEAN :
        /\ writers[w].pc = "read"
        /\ LET device == writers[w].device
           IN  /\ devices' = [devices EXCEPT ![device.mac] =
                      WriteDevice(@, writers[w].existing, device, applied)]
               /\ sightings' = Append(sightings,
                      [mac |-> device.mac, ip |-> device.ip,
                       timestamp |-> device.last_seen])
        /\ writers' = [writers EXCEPT ![w] = IdleWriter]
        /\ UNCHANGED now

WriterTick ==
    /\ now < MaxWriterTime
    /\ now' = now + 1
    /\ UNCHANGED <<devVars, wrVars>>

(***************************************************************************)
(* One collector class under the framework: each firing runs collect(),    *)
(* process_data() and store_data() of the class (base.py 87-98, 117-121).  *)
(***************************************************************************)
\* the firings of one run
MaxFirings == 3

CollectorKinds == {"bandwidth", "devices", "performance", "network",
                   "pihole", "unbound"}

\* the classes whose collect() calls self.store_data(metrics) itself before
\* it returns the metrics
StoresInCollect(kind) == kind \in {"performance", "network"}

FiringInit ==
    /\ firing = [kind |-> "bandwidth", pc |-> "idle", snapshot |-> 0,
                 error |-> FALSE]
    /\ store_calls = <<>>

\* a store_data call: the snapshot it was given (error: the {"error": ...}
\* dictionary collect() returns when a probe raised) and who made it
StoreCall(snapshot, error, by) ==
    [snapshot |-> snapshot, error |-> error, by |-> by]

\* data = self.collect(): the probes succeed and a snapshot is produced, or
\* one raises, which collect() catches
FireCollect ==
    \E probe_ok \in BOOLEAN :
        /\ firing.pc = "idle"
        /\ firing.snapshot < MaxFirings
        /\ firing' = [firing EXCEPT !.pc = "collected",
                                    !.snapshot = @ + 1,
                                    !.error = ~probe_ok]
        /\ store_calls' =
              IF StoresInCollect(firing.kind) /\ probe_ok
              THEN Append(store_calls,
                          StoreCall(firing.snapshot + 1, FALSE, "collect"))
              ELSE store_calls

\* processed_data = self.process_data(data): no class overrides it
FireProcess ==
    /\ firing.pc = "collected"
    /\ firing' = [firing EXCEPT !.pc = "processed"]
    /\ UNCHANGED store_calls

\* self.store_data(processed_data)
FireStore ==
    /\ firing.pc = "processed"
    /\ firing' = [firing EXCEPT !.pc = "idle"]
    /\ store_calls' = Append(store_calls,
                             StoreCall(firing.snapshot, firing.error, "framework"))

(***************************************************************************)
(* DeviceCollector._merge_scan_results                                     *)
(***************************************************************************)
\* the longest list a scan returns
MaxScanLen == 2

\* a scan result {ip, mac, scan_method} of _scan_network_arp / _ping, and the
\* lists of at most n of them a scan returns: one result per answering IP
ScanRecords(method) ==
    {[mac |-> m, ip |-> i, scan_method |-> method] : m \in MACs, i \in IPs}

RECURSIVE ScanLists(_, _)
ScanLists(method, n) ==
    IF n = 0 THEN {<<>>}
    ELSE ScanLists(method, n - 1) \cup
         {q \in {Append(l, d) : l \in {k \in ScanLists(method, n - 1) : Len(k) = n - 1},
                                d \in ScanRecords(method)} :
             \A i, j \in DOMAIN q : q[i].ip = q[j].ip => i = j}

\* devices_by_mac as the sequence of its values in insertion order:
\* the position of the value of key mac, 0 if absent
KeyIndex(devices_by_mac, mac) ==
    IF \E i \in DOMAIN devices_by_mac : devices_by_mac[i].mac = mac
    THEN CHOOSE i \in DOMAIN devices_by_mac : devices_by_mac[i].mac = mac
    ELSE 0

\* for device in arp_devices: devices_by_mac[mac] = device
RECURSIVE MergeArp(_, _)
MergeArp(devices_by_mac, arp) ==
    IF arp = <<>> THEN devices_by_mac
    ELSE LET device == Head(arp)
             i == KeyIndex(devices_by_mac, device.mac)
         IN  MergeArp(IF i = 0 THEN Append(devices_by_mac, device)
                      ELSE [devices_by_mac EXCEPT ![i] = device],
                      Tail(arp))

\* for device in ping_devices: added if its MAC is not a key yet, else the
\* record of the MAC gets scan_method "arp+ping"
RECURSIVE MergePing(_, _)
MergePing(devices_by_mac, ping) ==
    IF ping = <<>> THEN devices_by_mac
    ELSE LET device == Head(ping)
             i == KeyIndex(devices_by_mac, device.mac)
         IN  MergePing(IF i = 0 THEN Append(devices_by_mac, device)
                       ELSE [devices_by_mac EXCEPT ![i].scan_method = "arp+ping"],
                       Tail(ping))

\* DeviceCollector._merge_scan_results(arp_devices, ping_devices)
MergeScanResults(arp, ping) == MergePing(MergeArp(<<>>, arp), ping)

NotMerged == [done |-> FALSE, devices |-> <<>>]

\* no scan has run
MergeInit ==
    /\ arp_devices = <<>>
    /\ ping_devices = <<>>
    /\ merged = NotMerged

\* collect(): devices = self._merge_scan_results(arp_devices, ping_devices)
merge_scan_results ==
    /\ ~merged.done
    /\ merged' = [done |-> TRUE,
                  devices |-> MergeScanResults(arp_devices, ping_devices)]
    /\ UNCHANGED <<now, arp_devices, ping_devices>>

(***************************************************************************)
(* SecurityAnalyzer: the port-scan check and the cache cleanup of analyze()*)
(***************************************************************************)
\* events one run may log
MaxEvents == 3

\* THRESHOLDS["port_scan_min_ports"], the hour between two port_scan alerts
\* of a device and the 24 hours a cache entry is kept
PortScanMinPorts == 10
PortScanAlertGap == 3600
CacheRetention == 86400
\* scheduler.every(30).minutes.do(self._run_security_analysis)
AnalysisPeriod == 1800

\* the devices with connection events, the targets they contact and the
\* sets of ports of one cycle's connections to a target
ScanMACs == {"aa:bb:cc:11:22:33"}
TargetIPs == {"10.0.0.1", "10.0.0.2"}
PortBatches == {1..5, 6..10, 1..10}

\* the clock values at which analysis cycles run: 30 minutes apart (the
\* schedule of the manager), on the first day and 24 hours later
AnalyzerTimes == {0, 1800, 3600, 5400, 86400, 88200, 90000, 91800}

EmptyMap == [x \in {} |-> x]
Remove(f, S) == [x \in DOMAIN f \ S |-> f[x]]

\* the defaults of bandwidth_threshold and cpu_threshold, the margin of a
\* high CPU alert, THRESHOLDS["connection_rate"], THRESHOLDS["dns_query_rate"]
\* and the minutes of the day the DNS query count is averaged over
BandwidthThreshold == 50
CpuThreshold == 90
CpuHighMargin == 5
ConnectionRateLimit == 30
DnsQueryRateLimit == 100
MinutesPerDay == 1440
\* a query that returned no metrics
NoMetrics == -1

\* the keys of SUSPICIOUS_PORTS
SuspiciousPorts == {22, 23, 445, 1433, 3306, 3389, 4444, 5900, 8080, 8443, 9100}

\* the event types of the alerts the checks raise
AlertTypes == {"new_device", "high_bandwidth", "port_scan", "high_connection_rate",
               "suspicious_connection", "high_cpu_usage", "high_dns_query_rate"}

\* the five checks of analyze(), in the order it runs them
CheckNames == <<"new_devices", "bandwidth", "connection_patterns",
                "system_performance", "dns_queries">>

\* one entry of calls: a check entered (with the bandwidth peak it read), a
\* trigger_alert call (with its return value and what it did about the
\* e-mail), a create_event call that returned or raised, or the cache cleanup
Call(op, name, severity, peak, result, email) ==
    [op |-> op, name |-> name, severity |-> severity, peak |-> peak,
     result |-> result, email |-> email]

Enter(st, name, peak) ==
    [st EXCEPT !.calls = Append(@, Call("check", name, "", peak, FALSE, ""))]

\* the alert raised only if trigger_alert passed it: a throttled alert is
\* not logged as an event
RaiseAlert_SkipsThrottled(st, check, event, t) ==
    LET c == TriggerAlertCall(st.alert_history, st.last_alert_time,
                              event.event_type, event.severity, t, st.smtp)
        st1 == [st EXCEPT !.alert_history = c.alert_history,
                          !.last_alert_time = c.last_alert_time,
                          !.calls = Append(@, Call("trigger_alert", event.event_type,
                                                   event.severity, NoMetrics,
                                                   c.result, c.email))]
    IN  IF ~c.result THEN st1
        ELSE [st1 EXCEPT !.events = Append(@, event),
                         !.calls = Append(@, Call("create_event", event.event_type,
                                                  event.severity, NoMetrics, FALSE, ""))]

\* what every check does to raise an alert: alert_manager.trigger_alert(...)
\* and then mongo_db.create_event(...), which inserts the event or raises
\* (st.fail names the check in which the storage fails)
RaiseAlert(st, check, event, t) ==
    LET c == TriggerAlertCall(st.alert_history, st.last_alert_time,
                              event.event_type, event.severity, t, st.smtp)
        st1 == [st EXCEPT !.alert_history = c.alert_history,
                          !.last_alert_time = c.last_alert_time,
                          !.calls = Append(@, Call("trigger_alert", event.event_type,
                                                   event.severity, NoMetrics,
                                                   c.result, c.email))]
    IN  IF st.fail = check
        THEN [st1 EXCEPT !.raised = TRUE,
                         !.calls = Append(@, Call("create_event_raises", event.event_type,
                                                  event.severity, NoMetrics, FALSE, ""))]
        ELSE [st1 EXCEPT !.events = Append(@, event),
                         !.calls = Append(@, Call("create_event", event.event_type,
                                                  event.severity, NoMetrics, FALSE, ""))]

\* the event documents of the checks
SecurityEvent(event_type, severity, t) ==
    [event_type |-> event_type, timestamp |-> t, severity |-> severity]

DeviceEvent(event_type, severity, t, ip, mac) ==
    [event_type |-> event_type, timestamp |-> t, severity |-> severity,
     source_ip |-> ip, source_mac |-> mac]

\* the devices get_active_devices(hours=1) may return
RecentDevices ==
    {[ip |-> "192.168.1.50", mac |-> "aa:bb:cc:11:22:33",
      hostname |-> "", vendor |-> "Unknown"],
     [ip |-> "192.168.1.77", mac |-> "00:14:22:11:22:33",
      hostname |-> "macbook", vendor |-> "Dell"]}

\* the entry device_history gets for a MAC it does not hold yet
NewHistory == [connections |-> <<>>, common_destinations |-> {}]

\* _handle_new_device: previous_ips, the "ip" of every entry of
\* device_history[mac]["connections"] (a list nothing appends to)
PreviousIPs(history, mac) ==
    IF mac \in DOMAIN history
    THEN {history[mac].connections[i].ip : i \in DOMAIN history[mac].connections}
    ELSE {}

\* _handle_new_device: vendor.lower() in suspicious_vendors, or a word of
\* suspicious_hostnames in hostname.lower() (in none of the model's
\* hostnames)
SuspiciousName(device) ==
    \/ device.vendor \in {"Unknown", "unknown", "raspberrypi", "arduino", "espressif"}
    \/ device.hostname \in {"kali", "parrot", "pentoo", "blackarch", "test", "admin"}

\* _handle_new_device: is_suspicious, the two tests of the names or
\* previous_ips and ip not in previous_ips
IsSuspicious(device, history) ==
    \/ SuspiciousName(device)
    \/ /\ PreviousIPs(history, device.mac) # {}
       /\ device.ip \notin PreviousIPs(history, device.mac)

\* _analyze_new_devices: the loop over the recent devices; a device whose ip
\* is not in known_ips is handled as new (_handle_new_device raises the
\* alert, logs the event and then initializes device_history[mac] if the
\* MAC is not in it), then its ip is added to known_ips
RECURSIVE NewDevicesLoop(_, _, _)
NewDevicesLoop(st, recent, t) ==
    IF recent = <<>> \/ st.raised THEN st
    ELSE LET device == Head(recent)
             severity == IF IsSuspicious(device, st.history) THEN "medium" ELSE "low"
             a == RaiseAlert(st, "new_devices",
                             DeviceEvent("new_device", severity, t, device.ip, device.mac),
                             t)
         IN  IF device.ip \in st.known_ips
             THEN NewDevicesLoop(st, Tail(recent), t)
             ELSE IF a.raised THEN a
             ELSE NewDevicesLoop(
                      [a EXCEPT !.history = IF device.mac \in DOMAIN @ THEN @
                                            ELSE (device.mac :> NewHistory) @@ @,
                                !.known_ips = @ \cup {device.ip}],
                      Tail(recent), t)

AnalyzeNewDevices(st, recent, t) ==
    NewDevicesLoop(Enter(st, "new_devices", NoMetrics), recent, t)

\* the severity of a peak at or above twice / one and a half times the
\* threshold
BandwidthSeverity_Inclusive(peak, threshold) ==
    IF peak >= threshold * 2 THEN "high"
    ELSE IF 2 * peak >= 3 * threshold THEN "medium"
    ELSE "low"

\* _analyze_bandwidth: high above threshold * 2, medium above threshold * 1.5,
\* else low
BandwidthSeverity(peak, threshold) ==
    IF peak > threshold * 2 THEN "high"
    ELSE IF 2 * peak > 3 * threshold THEN "medium"
    ELSE "low"

\* _analyze_bandwidth with peak the peak of the metrics of the last 15
\* minutes in Mbps, NoMetrics if there are none (bandwidth_history, which
\* nothing reads, is left out)
AnalyzeBandwidth(st, peak, t) ==
    LET s == Enter(st, "bandwidth", peak)
    IN  IF peak # NoMetrics /\ peak > BandwidthThreshold
        THEN RaiseAlert(s, "bandwidth",
                        SecurityEvent("high_bandwidth",
                                      BandwidthSeverity(peak, BandwidthThreshold), t),
                        t)
        ELSE s

PortScanEvent(mac, target_ip, t) ==
    [event_type |-> "port_scan", timestamp |-> t, severity |-> "medium",
     source_mac |-> mac, target_ip |-> target_ip]

\* _check_port_scan: not last_alert or (now - last_alert) > 3600
PortScanAlertDue(last_alert, t) ==
    last_alert = NoTime \/ t - last_alert > PortScanAlertGap

\* _check_port_scan(mac, connections) at clock t: the loop over the targets
\* of the connections, in the order given, on the analysis state st;
\* ports[target] are the ports the connections contact on a target. The loop
\* ends when create_event raises.
RECURSIVE CheckPortScan(_, _, _, _, _)
CheckPortScan(st, mac, order, ports, t) ==
    IF order = <<>> \/ st.raised THEN st
    ELSE
      LET target_ip == Head(order)
          entry == st.cache[mac]
          old == IF target_ip \in DOMAIN entry.targets
                 THEN entry.targets[target_ip]
                 ELSE [ports |-> {}, first_seen |-> t]
          new == [old EXCEPT !.ports = old.ports \cup ports[target_ip]]
          targets == (target_ip :> new) @@ entry.targets
          port_count == Cardinality(new.ports)
          alert == /\ port_count >= PortScanMinPorts
                   /\ PortScanAlertDue(entry.last_alert, t)
          cached == [st EXCEPT !.cache =
                        (mac :> [entry EXCEPT !.targets = targets]) @@ st.cache]
          a == RaiseAlert(cached, "connection_patterns",
                          PortScanEvent(mac, target_ip, t), t)
          next == IF ~alert THEN cached
                  ELSE IF a.raised THEN a
                  ELSE [a EXCEPT !.cache =
                           (mac :> [targets |-> targets, last_alert |-> t]) @@ a.cache]
      IN  CheckPortScan(next, mac, Tail(order), ports, t)

\* _check_connection_rate with rate the connections of the last minute
CheckConnectionRate(st, mac, rate, t) ==
    IF rate > ConnectionRateLimit
    THEN RaiseAlert(st, "connection_patterns",
                    [event_type |-> "high_connection_rate", timestamp |-> t,
                     severity |-> "medium", source_mac |-> mac], t)
    ELSE st

\* the loop of _check_unusual_destinations over the connections, each one
\* <<target_ip, port>> (the pair stands for the string "target_ip:port" the
\* code keeps): a common destination is skipped; a port of SUSPICIOUS_PORTS
\* raises the alert if get_device_by_mac finds the device (st.found); a pair
\* on any other port is added to common_destinations, the set object that
\* device_history[mac] holds
RECURSIVE UnusualDestinationsLoop(_, _, _, _)
UnusualDestinationsLoop(st, mac, contacts, t) ==
    IF contacts = {} \/ st.raised THEN st
    ELSE LET c == CHOOSE x \in contacts : TRUE
             next ==
                 IF c \in st.history[mac].common_destinations THEN st
                 ELSE IF c[2] \in SuspiciousPorts
                 THEN IF st.found
                      THEN RaiseAlert(st, "connection_patterns",
                                      [event_type |-> "suspicious_connection",
                                       timestamp |-> t, severity |-> "medium",
                                       source_mac |-> mac,
                                       target_ip |-> c[1], target_port |-> c[2]], t)
                      ELSE st
                 ELSE [st EXCEPT !.history[mac].common_destinations = @ \cup {c}]
         IN  UnusualDestinationsLoop(next, mac, contacts \ {c}, t)

\* _check_unusual_destinations: device_history[mac] is initialized if the
\* MAC is not in it, then the loop
CheckUnusualDestinations(st, mac, contacts, t) ==
    UnusualDestinationsLoop(
        [st EXCEPT !.history = IF mac \in DOMAIN @ THEN @
                               ELSE (mac :> NewHistory) @@ @],
        mac, contacts, t)

\* _analyze_connection_patterns for the one device with connection events:
\* the three checks of its connections, skipped when it has none
AnalyzeConnectionPatterns(st, mac, order, ports, rate, t) ==
    LET s == Enter(st, "connection_patterns", NoMetrics)
        s0 == [s EXCEPT !.cache =
                  IF mac \in DOMAIN @ THEN @
                  ELSE (mac :> [targets |-> EmptyMap, last_alert |-> NoTime]) @@ @]
        s1 == CheckPortScan(s0, mac, order, ports, t)
        s2 == IF s1.raised THEN s1 ELSE CheckConnectionRate(s1, mac, rate, t)
        contacts == UNION {{<<order[i], p>> : p \in ports[order[i]]} :
                              i \in DOMAIN order}
    IN  IF order = <<>> THEN s
        ELSE IF s2.raised THEN s2
        ELSE CheckUnusualDestinations(s2, mac, contacts, t)

\* _analyze_system_performance with cpu the recent cpu_percent
AnalyzeSystemPerformance(st, cpu, t) ==
    LET s == Enter(st, "system_performance", NoMetrics)
    IN  IF cpu # NoMetrics /\ cpu > CpuThreshold
        THEN RaiseAlert(s, "system_performance",
                        SecurityEvent("high_cpu_usage",
                                      IF cpu > CpuThreshold + CpuHighMargin
                                      THEN "high" ELSE "medium", t), t)
        ELSE s

\* _analyze_dns_queries with total_queries the dns_queries_today of Pi-hole:
\* total_queries / (24 * 60) > THRESHOLDS["dns_query_rate"]
AnalyzeDnsQueries(st, total_queries, t) ==
    LET s == Enter(st, "dns_queries", NoMetrics)
    IN  IF total_queries # NoMetrics
           /\ total_queries > DnsQueryRateLimit * MinutesPerDay
        THEN RaiseAlert(s, "dns_queries",
                        SecurityEvent("high_dns_query_rate", "medium", t), t)
        ELSE s

\* _cleanup_cache at clock t: targets first seen more than 24 hours ago are
\* deleted, then the devices left without targets
CleanupCache(cache, t) ==
    LET kept(mac) == {ip \in DOMAIN cache[mac].targets :
                         ~(t - cache[mac].targets[ip].first_seen > CacheRetention)}
        macs == {mac \in DOMAIN cache : kept(mac) # {}}
    IN  [mac \in macs |->
            [cache[mac] EXCEPT !.targets =
                Remove(cache[mac].targets, DOMAIN cache[mac].targets \ kept(mac))]]

\* the body of analyze() at clock t on the inputs in: the five checks and
\* the cache cleanup inside one try; an exception raised by a check ends the
\* try, it is logged and analyze() returns
RunCheck(name, st, in, t) ==
    CASE name = "new_devices" -> AnalyzeNewDevices(st, in.devices, t)
      [] name = "bandwidth" -> AnalyzeBandwidth(st, in.peak, t)
      [] name = "connection_patterns" ->
            AnalyzeConnectionPatterns(st, in.mac, in.order, in.ports, in.rate, t)
      [] name = "system_performance" -> AnalyzeSystemPerformance(st, in.cpu, t)
      [] name = "dns_queries" -> AnalyzeDnsQueries(st, in.dns, t)

\* the element of a singleton
Only(S) == CHOOSE x \in S : TRUE

RECURSIVE RunChecks(_, _, _, _)
RunChecks(st, in, t, n) ==
    IF st.raised THEN st
    ELSE IF n > Len(CheckNames)
    THEN [st EXCEPT !.cache = CleanupCache(@, t),
                    !.calls = Append(@, Call("cleanup", "", "", NoMetrics, FALSE, ""))]
    ELSE Only({RunChecks(s, in, t, n + 1) :
                  s \in {RunCheck(CheckNames[n], st, in, t)}})

AnalyzeEffect(st, in, t) == RunChecks(st, in, t, 1)

\* _load_known_devices on the devices the registry holds at construction:
\* every ip becomes known and every MAC gets its device_history entry
LoadKnownDevices(stored) ==
    [known_ips |-> {d.ip : d \in stored},
     device_history |-> [m \in {d.mac : d \in stored} |-> NewHistory]]

\* SecurityAnalyzer.__init__ on the registry contents stored
AnalyzerLoaded(stored) ==
    /\ port_scan_cache = EmptyMap
    /\ last_run = NoTime
    /\ events = <<>>
    /\ known_ips = LoadKnownDevices(stored).known_ips
    /\ device_history = LoadKnownDevices(stored).device_history
    /\ associations = {<<d.mac, d.ip>> : d \in stored}
    /\ calls = <<>>

\* SecurityAnalyzer.__init__ on an empty registry
AnalyzerInit ==
    /\ port_scan_cache = EmptyMap
    /\ last_run = NoTime
    /\ events = <<>>
    /\ known_ips = {}
    /\ device_history = EmptyMap
    /\ associations = {}
    /\ calls = <<>>

\* the orders in which the connections of a cycle name their targets
TargetOrders ==
    {<<>>} \cup {<<a>> : a \in TargetIPs}
           \cup {q \in {<<a, b>> : a \in TargetIPs, b \in TargetIPs} : q[1] # q[2]}

\* One analysis cycle, run by the scheduler thread when it is due:
\* _run_security_analysis and analyze() on the inputs in, what the storage
\* returns to the checks (in.fail: the check in which create_event raises).
AnalyzeCycle(in) ==
    /\ last_run = NoTime \/ now - last_run >= AnalysisPeriod
    /\ last_run' = now
    /\ associations' = associations \cup {<<in.devices[i].mac, in.devices[i].ip>> :
                                             i \in DOMAIN in.devices}
    /\ LET st0 == [cache |-> port_scan_cache,
                   alert_history |-> alert_history,
                   last_alert_time |-> last_alert_time,
                   events |-> events,
                   known_ips |-> known_ips,
                   history |-> device_history,
                   calls |-> <<>>,
                   raised |-> FALSE,
                   fail |-> in.fail,
                   found |-> in.found,
                   smtp |-> smtp]
       IN  \E st1 \in {AnalyzeEffect(st0, in, now)} :
               /\ port_scan_cache' = st1.cache
               /\ events' = st1.events
               /\ alert_history' = st1.alert_history
               /\ last_alert_time' = st1.last_alert_time
               /\ known_ips' = st1.known_ips
               /\ device_history' = st1.history
               /\ calls' = st1.calls
    /\ UNCHANGED <<now, last_call, smtp, last_email>>

\* a cycle in which only the connections of device mac are of interest: no
\* recent device, no metrics, no connection in the last minute, no failure
ScanInput(mac, order, ports) ==
    [devices |-> <<>>, peak |-> NoMetrics, mac |-> mac, order |-> order,
     ports |-> ports, rate |-> 0, cpu |-> NoMetrics, dns |-> NoMetrics,
     fail |-> "none", found |-> TRUE]

analyze ==
    \E mac \in ScanMACs, order \in TargetOrders :
    \E ports \in [{order[i] : i \in DOMAIN order} -> PortBatches] :
        /\ AnalyzeCycle(ScanInput(mac, order, ports))
        /\ Len(events') <= MaxEvents

\* the inputs of a cycle that exercise every check: the recent devices, the
\* bandwidth peak around the threshold, its 1.5-fold and its double, a port
\* scan or a burst of connections, the CPU load, the DNS query count, and the
\* check in which the storage fails
CheckInputs ==
    {[devices |-> d, peak |-> p, mac |-> "aa:bb:cc:11:22:33",
      order |-> c.order, ports |-> c.ports, rate |-> c.rate,
      cpu |-> u, dns |-> q, fail |-> f, found |-> TRUE] :
        d \in {q \in {<<>>} \cup {<<x>> : x \in RecentDevices}
                          \cup {<<x, y>> : x \in RecentDevices, y \in RecentDevices} :
                    Len(q) = 2 => q[1] # q[2]},
        p \in {NoMetrics, 50, 51, 75, 76, 100, 101, 150},
        c \in {[order |-> <<>>, ports |-> EmptyMap, rate |-> 0],
               [order |-> <<"10.0.0.1">>, ports |-> ("10.0.0.1" :> 1..10), rate |-> 0],
               [order |-> <<"10.0.0.1">>, ports |-> ("10.0.0.1" :> 1..5), rate |-> 31]},
        u \in {NoMetrics, 93, 96},
        q \in {NoMetrics, 144001},
        f \in {"none"} \cup {CheckNames[i] : i \in DOMAIN CheckNames}}

\* the first cycle of an analyzer
AnalyzeChecks ==
    \E in \in CheckInputs :
        /\ last_run = NoTime
        /\ AnalyzeCycle(in)

AnalyzerTick ==
    /\ \E t \in AnalyzerTimes : t > now /\ now' = t
    /\ UNCHANGED <<amVars, saVars>>

\* a registered device that shows up with the address of another one: the
\* MAC of the second device of RecentDevices at the ip of the first
MovedDevice ==
    [ip |-> "192.168.1.50", mac |-> "00:14:22:11:22:33",
     hostname |-> "macbook", vendor |-> "Dell"]

\* the clock readings of the cycles on the device history: two cycles half
\* an hour apart and one more than a day later
HistoryTimes == {0, 1800, 88200}

\* the inputs of a cycle on the device history: at most one recent device,
\* the connections of one device to one target (on a port of
\* SUSPICIOUS_PORTS and another one, or on the other one alone), what
\* get_device_by_mac finds, and the check in which the storage fails
HistoryInputs ==
    {[devices |-> d, peak |-> NoMetrics, mac |-> "aa:bb:cc:11:22:33",
      order |-> c.order, ports |-> c.ports, rate |-> 0,
      cpu |-> NoMetrics, dns |-> NoMetrics, fail |-> f, found |-> g] :
        d \in {<<>>} \cup {<<x>> : x \in RecentDevices \cup {MovedDevice}},
        c \in {[order |-> <<>>, ports |-> EmptyMap],
               [order |-> <<"10.0.0.1">>, ports |-> ("10.0.0.1" :> {22, 80})],
               [order |-> <<"10.0.0.1">>, ports |-> ("10.0.0.1" :> {80})]},
        f \in {"none", "new_devices", "connection_patterns"},
        g \in BOOLEAN}

\* a cycle of an analyzer that has run before or not
AnalyzeHistory ==
    \E in \in HistoryInputs : AnalyzeCycle(in)

HistoryTick ==
    /\ \E t \in HistoryTimes : t > now /\ now' = t
    /\ UNCHANGED <<amVars, saVars>>

(***************************************************************************)
(* NetworkMonitorManager: start(), stop() and the scheduler threads.       *)
(* Only the security analysis jobs are modelled (not the daily cleanup);   *)
(* starting and stopping the collectors takes no time here.                *)
(***************************************************************************)
\* the period of the security analysis job, scaled (30 minutes in the code)
SchedulePeriod == 2
\* the calls of start() that get past the running test, and the last clock
\* value
MaxStarts == 2
MaxManagerTime == 8
\* time.sleep(1) of _scheduler_thread, join(timeout=5.0) of stop()
SchedulerSleep == 1
SchedulerJoinSeconds == 5

SchedThreads == 1..MaxStarts

SchedAlive(t) == sched_pc[t] \notin {"unborn", "dead"}

ManagerInit ==
    /\ manager_running = FALSE
    /\ jobs = <<>>
    /\ scheduler_thread = 0
    /\ sched_pc = [t \in SchedThreads |-> "unborn"]
    /\ sched_wake = [t \in SchedThreads |-> 0]
    /\ sched_pending = [t \in SchedThreads |-> <<>>]
    /\ mgr_ctl = [pc |-> "idle", deadline |-> 0, last |-> "none"]

\* schedule.Job.should_run of every job, at one clock value
DueJobs(js, t) == {i \in DOMAIN js : t >= js[i]}

\* sorted(runnable_jobs): by next_run, equal ones in the order of the job list
JobBefore(js, i, j) == js[i] < js[j] \/ (js[i] = js[j] /\ i < j)

SortedJobs(js, S) ==
    CHOOSE s \in [1..Cardinality(S) -> S] :
        \A i, j \in 1..Cardinality(S) : i < j => JobBefore(js, s[i], s[j])

\* _setup_schedules: every(30).minutes.do(...) adds a job to the one
\* scheduler of the manager, first due one period from now
SetupSchedules(js, t) == Append(js, t + SchedulePeriod)

manager_start ==
    /\ mgr_ctl.pc = "idle"
    /\ IF manager_running
          THEN /\ mgr_ctl' = [mgr_ctl EXCEPT !.last = "already_running"]
               /\ UNCHANGED <<manager_running, jobs, scheduler_thread, sched_pc>>
          ELSE \E t \in SchedThreads :
                 /\ sched_pc[t] = "unborn"
                 /\ \A u \in SchedThreads : u < t => sched_pc[u] # "unborn"
                 /\ manager_running' = TRUE
                 /\ jobs' = SetupSchedules(jobs, now)
                 /\ scheduler_thread' = t
                 /\ sched_pc' = [sched_pc EXCEPT ![t] = "test_running"]
                 /\ mgr_ctl' = [mgr_ctl EXCEPT !.last = "started"]
    /\ UNCHANGED <<now, sched_wake, sched_pending>>

manager_stop ==
    /\ mgr_ctl.pc = "idle"
    /\ IF ~manager_running
          THEN /\ mgr_ctl' = [mgr_ctl EXCEPT !.last = "not_running"]
               /\ UNCHANGED manager_running
          ELSE /\ manager_running' = FALSE
               /\ IF scheduler_thread # 0 /\ SchedAlive(scheduler_thread)
                     THEN mgr_ctl' = [pc |-> "joining",
                                      deadline |-> now + SchedulerJoinSeconds,
                                      last |-> mgr_ctl.last]
                     ELSE mgr_ctl' = [mgr_ctl EXCEPT !.last = "stopped"]
    /\ UNCHANGED <<now, jobs, scheduler_thread, sched_pc, sched_wake,
                   sched_pending>>

\* scheduler_thread.join(timeout=5.0) returns because the thread ended
SchedulerJoinReturn ==
    /\ mgr_ctl.pc = "joining"
    /\ ~SchedAlive(scheduler_thread)
    /\ mgr_ctl' = [mgr_ctl EXCEPT !.pc = "idle", !.last = "stopped"]
    /\ UNCHANGED <<now, manager_running, jobs, scheduler_thread, sched_pc,
                   sched_wake, sched_pending>>

\* ... or because the 5 seconds are over; stop() returns all the same
SchedulerJoinTimeout ==
    /\ mgr_ctl.pc = "joining"
    /\ SchedAlive(scheduler_thread)
    /\ now >= mgr_ctl.deadline
    /\ mgr_ctl' = [mgr_ctl EXCEPT !.pc = "idle", !.last = "join_timeout"]
    /\ UNCHANGED <<now, manager_running, jobs, scheduler_thread, sched_pc,
                   sched_wake, sched_pending>>

\* while self.running:
SchedTestRunning ==
    \E t \in SchedThreads :
        /\ sched_pc[t] = "test_running"
        /\ sched_pc' = [sched_pc EXCEPT
                ![t] = IF manager_running THEN "run_pending" ELSE "dead"]
        /\ UNCHANGED <<now, manager_running, jobs, scheduler_thread,
                       sched_wake, sched_pending, mgr_ctl>>

\* scheduler.run_pending(): the due jobs are collected and sorted first
SchedRunPending ==
    \E t \in SchedThreads :
        /\ sched_pc[t] = "run_pending"
        /\ sched_pending' = [sched_pending EXCEPT
                ![t] = SortedJobs(jobs, DueJobs(jobs, now))]
        /\ sched_pc' = [sched_pc EXCEPT ![t] = "run_jobs"]
        /\ UNCHANGED <<now, manager_running, jobs, scheduler_thread,
                       sched_wake, mgr_ctl>>

\* ... then run one after the other: job.run() calls
\* _run_security_analysis; with no job left, time.sleep(1)
SchedRunJob ==
    \E t \in SchedThreads :
        /\ sched_pc[t] = "run_jobs"
        /\ IF sched_pending[t] = <<>>
              THEN /\ sched_pc' = [sched_pc EXCEPT ![t] = "sleeping"]
                   /\ sched_wake' = [sched_wake EXCEPT
                                        ![t] = now + SchedulerSleep]
              ELSE /\ sched_pc' = [sched_pc EXCEPT ![t] = "analyzing"]
                   /\ UNCHANGED sched_wake
        /\ UNCHANGED <<now, manager_running, jobs, scheduler_thread,
                       sched_pending, mgr_ctl>>

\* analyze() returns (or raised, which _run_security_analysis catches);
\* only then job.run() sets last_run and the job's next_run
SchedAnalyzeReturn ==
    \E t \in SchedThreads :
        /\ sched_pc[t] = "analyzing"
        /\ jobs' = [jobs EXCEPT ![Head(sched_pending[t])] = now + SchedulePeriod]
        /\ sched_pending' = [sched_pending EXCEPT ![t] = Tail(@)]
        /\ sched_pc' = [sched_pc EXCEPT ![t] = "run_jobs"]
        /\ UNCHANGED <<now, manager_running, scheduler_thread, sched_wake,
                       mgr_ctl>>

SchedWake ==
    \E t \in SchedThreads :
        /\ sched_pc[t] = "sleeping"
        /\ now >= sched_wake[t]
        /\ sched_pc' = [sched_pc EXCEPT ![t] = "test_running"]
        /\ UNCHANGED <<now, manager_running, jobs, scheduler_thread,
                       sched_wake, sched_pending, mgr_ctl>>

\* time passes while every thread sleeps, analyses or waits in join
ManagerTick ==
    /\ now < MaxManagerTime
    /\ \A t \in SchedThreads :
          /\ sched_pc[t] \notin {"test_running", "run_pending", "run_jobs"}
          /\ sched_pc[t] = "sleeping" => now < sched_wake[t]
    /\ mgr_ctl.pc = "joining" =>
          (SchedAlive(scheduler_thread) /\ now < mgr_ctl.deadline)
    /\ now' = now + 1
    /\ UNCHANGED mgrVars

(***************************************************************************)
(* AlertManager called from several threads. trigger_alert holds no lock:  *)
(* its test, its append and its update of last_alert_time are steps of     *)
(* their own that steps of other callers may come between.                 *)
(***************************************************************************)
\* the threads that call trigger_alert and the calls of a run
MaxCallers == 2
MaxCalls == 2
\* the last clock value of a run of the callers
MaxCallTime == 360
\* get_recent_alerts(limit=10)
RecentLimit == 10

Callers == 1..MaxCallers

IdleCaller ==
    [pc |-> "idle", event_type |-> "none", severity |-> "none", timestamp |-> 0]

CallersInit ==
    /\ callers = [c \in Callers |-> IdleCaller]
    /\ call_log = <<>>
    /\ recent_alerts = <<>>

InCall == {c \in Callers : callers[c].pc # "idle"}

Returned(c, result) ==
    Append(call_log, [event_type |-> callers[c].event_type,
                      severity |-> callers[c].severity,
                      timestamp |-> callers[c].timestamp,
                      result |-> result])

\* trigger_alert is entered: timestamp = datetime.now()
CallEnter(c) ==
    /\ callers[c].pc = "idle"
    /\ Len(call_log) + Cardinality(InCall) < MaxCalls
    /\ \E e \in EventTypes, s \in Severities :
          callers' = [callers EXCEPT ![c] =
                         [pc |-> "check", event_type |-> e, severity |-> s,
                          timestamp |-> now]]
    /\ UNCHANGED <<now, amVars, call_log, recent_alerts>>

\* if not self._should_send_alert(event_type, severity): return False
CallCheck(c) ==
    /\ callers[c].pc = "check"
    /\ IF ShouldSendAlert(last_alert_time, callers[c].event_type,
                          callers[c].severity, now)
       THEN /\ callers' = [callers EXCEPT ![c].pc = "append"]
            /\ UNCHANGED call_log
       ELSE /\ callers' = [callers EXCEPT ![c] = IdleCaller]
            /\ call_log' = Returned(c, FALSE)
    /\ UNCHANGED <<now, amVars, recent_alerts>>

\* self.alert_history.append(alert_data) and the trim to the last 100
CallAppend(c) ==
    /\ callers[c].pc = "append"
    /\ alert_history' = AppendAlert(alert_history,
                                    AlertData(callers[c].event_type,
                                              callers[c].severity,
                                              callers[c].timestamp))
    /\ callers' = [callers EXCEPT ![c].pc = "stamp"]
    /\ UNCHANGED <<now, last_alert_time, last_call, smtp, last_email,
                   call_log, recent_alerts>>

\* self.last_alert_time[event_type] = timestamp
CallStamp(c) ==
    /\ callers[c].pc = "stamp"
    /\ last_alert_time' =
          [last_alert_time EXCEPT ![callers[c].event_type] = callers[c].timestamp]
    /\ callers' = [callers EXCEPT ![c].pc = "notify"]
    /\ UNCHANGED <<now, alert_history, last_call, smtp, last_email,
                   call_log, recent_alerts>>

\* the e-mail of a high or medium alert, if configured, and return True
CallNotify(c) ==
    /\ callers[c].pc = "notify"
    /\ last_email' = IF smtp = "unconfigured"
                        \/ callers[c].severity \notin {"high", "medium"}
                     THEN "skipped"
                     ELSE IF SendEmailAlert(smtp) THEN "sent" ELSE "failed"
    /\ last_call' = [event_type |-> callers[c].event_type,
                     severity |-> callers[c].severity, result |-> TRUE]
    /\ call_log' = Returned(c, TRUE)
    /\ callers' = [callers EXCEPT ![c] = IdleCaller]
    /\ UNCHANGED <<now, alert_history, last_alert_time, smtp, recent_alerts>>

\* alerts.sort(key=timestamp, reverse=True): a stable sort, newest first
RECURSIVE InsertNewestFirst(_, _)
InsertNewestFirst(sorted, a) ==
    IF sorted = <<>> THEN <<a>>
    ELSE IF Head(sorted).timestamp >= a.timestamp
    THEN <<Head(sorted)>> \o InsertNewestFirst(Tail(sorted), a)
    ELSE <<a>> \o sorted

RECURSIVE SortNewestFirst(_)
SortNewestFirst(alerts) ==
    IF alerts = <<>> THEN <<>>
    ELSE InsertNewestFirst(SortNewestFirst(SubSeq(alerts, 1, Len(alerts) - 1)),
                           alerts[Len(alerts)])

\* get_recent_alerts() of a reporting thread: a copy of the history, sorted
\* newest first and cut to the limit
GetRecentAlerts ==
    /\ recent_alerts' =
          LET sorted == SortNewestFirst(alert_history)
          IN  IF Len(sorted) > RecentLimit THEN SubSeq(sorted, 1, RecentLimit)
              ELSE sorted
    /\ UNCHANGED <<now, amVars, callers, call_log>>

\* time passes between the calls (a call is short on the scale of the clock)
CallTick ==
    /\ InCall = {}
    /\ \E d \in AlertTickSteps :
          /\ now + d <= MaxCallTime
          /\ now' = now + d
    /\ UNCHANGED <<amVars, atVars>>

(***************************************************************************)
(* NetworkMonitorManager.__init__, statement by statement. The             *)
(* constructors of the storage backends and of the collectors are outside  *)
(* the model: each call returns or raises.                                 *)
(***************************************************************************)
\* the options of Config that __init__ reads
Configs ==
    [enable_security_scanning : BOOLEAN, pihole_enabled : BOOLEAN,
     unbound_enabled : BOOLEAN]

\* _init_storage: the backends, in the order it constructs them
StorageNames == <<"influx", "mongo">>

\* _init_collectors: the collectors it constructs under a configuration, in
\* its order
CollectorNames(config) ==
    <<"bandwidth", "devices", "performance">>
        \o (IF config.enable_security_scanning THEN <<"security">> ELSE <<>>)
        \o (IF config.pihole_enabled THEN <<"pihole">> ELSE <<>>)
        \o (IF config.unbound_enabled THEN <<"unbound">> ELSE <<>>)

\* before the constructor is called
NewManager(config) ==
    [pc |-> "fields", config |-> config, attrs |-> {}, storage |-> {},
     collectors |-> {}, analyzers |-> EmptyMap, error |-> "none"]

\* load_config without environment variables: every option is on
DefaultConfig ==
    [enable_security_scanning |-> TRUE, pihole_enabled |-> TRUE,
     unbound_enabled |-> TRUE]

CtorInit == ctor = NewManager(DefaultConfig)

\* self.config = config ... self._analyzers = {}
CtorFields ==
    /\ ctor.pc = "fields"
    /\ ctor' = [ctor EXCEPT !.attrs = {"config", "running", "_collectors",
                                       "_storage", "_analyzers"},
                            !.pc = "storage"]

\* _init_storage: the next backend is constructed, or its constructor raises
CtorInitStorage ==
    /\ ctor.pc = "storage"
    /\ LET name == StorageNames[Cardinality(ctor.storage) + 1]
       IN  \E ok \in BOOLEAN :
               ctor' = IF ~ok THEN [ctor EXCEPT !.pc = "raised", !.error = name]
                       ELSE [ctor EXCEPT
                                !.storage = @ \cup {name},
                                !.pc = IF Cardinality(ctor.storage) + 1
                                            = Len(StorageNames)
                                       THEN "collectors" ELSE "storage"]

\* _init_collectors: the next collector is constructed, or its constructor
\* raises
CtorInitCollector ==
    /\ ctor.pc = "collectors"
    /\ LET names == CollectorNames(ctor.config)
           name == names[Cardinality(ctor.collectors) + 1]
       IN  \E ok \in BOOLEAN :
               ctor' = IF ~ok THEN [ctor EXCEPT !.pc = "raised", !.error = name]
                       ELSE [ctor EXCEPT
                                !.collectors = @ \cup {name},
                                !.pc = IF Cardinality(ctor.collectors) + 1 = Len(names)
                                       THEN "analyzers" ELSE "collectors"]

\* _init_analyzers: with security scanning enabled the SecurityAnalyzer is
\* given self.alert_manager, an attribute that has to exist to be read
CtorInitAnalyzers ==
    /\ ctor.pc = "analyzers"
    /\ ctor' = IF ~ctor.config.enable_security_scanning
               THEN [ctor EXCEPT !.pc = "alert_manager"]
               ELSE IF "alert_manager" \notin ctor.attrs
               THEN [ctor EXCEPT !.pc = "raised", !.error = "AttributeError"]
               ELSE [ctor EXCEPT
                        !.analyzers = ("security" :> [alert_manager |-> "alert_manager"]),
                        !.pc = "alert_manager"]

\* self.alert_manager = AlertManager(config)
CtorAlertManager ==
    /\ ctor.pc = "alert_manager"
    /\ ctor' = [ctor EXCEPT !.attrs = @ \cup {"alert_manager"}, !.pc = "scheduler"]

\* self.scheduler = schedule.Scheduler(); __init__ returns
CtorScheduler ==
    /\ ctor.pc = "scheduler"
    /\ ctor' = [ctor EXCEPT !.attrs = @ \cup {"scheduler"}, !.pc = "done"]

(***************************************************************************)
(* Specifications: one per component, the other components at rest         *)
(***************************************************************************)
ExtInit == FiringInit /\ CallersInit /\ CtorInit

RestInit == MergeInit /\ ManagerInit /\ WritersInit /\ ExtInit

AlertInit ==
    /\ now = 0
    /\ AlertManagerInit
    /\ CollectorInit
    /\ DeviceInit
    /\ AnalyzerInit
    /\ RestInit

AlertNext ==
    \/ TriggerAlert /\ UNCHANGED <<colVars, devVars, saVars, restVars>>
    \/ AlertTick /\ UNCHANGED <<colVars, devVars, saVars, restVars>>

SpecAlerts == AlertInit /\ [][AlertNext]_vars

\* a burst of more than HistoryLimit alerts, with any mail configuration
BurstInit ==
    /\ now = 0
    /\ alert_history = <<>>
    /\ last_alert_time = [e \in EventTypes |-> NoTime]
    /\ last_call = NoCall
    /\ smtp \in SmtpStates
    /\ last_email = "none"
    /\ CollectorInit
    /\ DeviceInit
    /\ AnalyzerInit
    /\ RestInit

BurstNext ==
    \/ BurstAlert /\ UNCHANGED <<colVars, devVars, saVars, restVars>>
    \/ BurstTick /\ UNCHANGED <<colVars, devVars, saVars, restVars>>
    \/ SmtpChange /\ UNCHANGED <<colVars, devVars, saVars, restVars>>

SpecBurst == BurstInit /\ [][BurstNext]_vars

CollectorSpecInit ==
    /\ now = Interval
    /\ AlertManagerInit
    /\ CollectorInit
    /\ DeviceInit
    /\ AnalyzerInit
    /\ RestInit

CollectorNext ==
    \/ start /\ UNCHANGED <<amVars, devVars, saVars, restVars>>
    \/ StartCollect /\ UNCHANGED <<amVars, devVars, saVars, restVars>>
    \/ stop /\ UNCHANGED <<amVars, devVars, saVars, restVars>>
    \/ JoinReturn /\ UNCHANGED <<amVars, devVars, saVars, restVars>>
    \/ JoinTimeout /\ UNCHANGED <<amVars, devVars, saVars, restVars>>
    \/ LoopTestRunning /\ UNCHANGED <<amVars, devVars, saVars, restVars>>
    \/ LoopTestElapsed /\ UNCHANGED <<amVars, devVars, saVars, restVars>>
    \/ LoopCollect /\ UNCHANGED <<amVars, devVars, saVars, restVars>>
    \/ LoopWake /\ UNCHANGED <<amVars, devVars, saVars, restVars>>
    \/ CollectorTick /\ UNCHANGED <<amVars, devVars, saVars, restVars>>

SpecCollector == CollectorSpecInit /\ [][CollectorNext]_vars

DeviceSpecInit ==
    /\ now = 0
    /\ AlertManagerInit
    /\ CollectorInit
    /\ DeviceInit
    /\ AnalyzerInit
    /\ RestInit

DeviceNext ==
    \/ store_data /\ UNCHANGED <<amVars, colVars, saVars, restVars>>
    \/ DeviceTick /\ UNCHANGED <<amVars, colVars, saVars, restVars>>

SpecDevices == DeviceSpecInit /\ [][DeviceNext]_vars

AnalyzerSpecInit ==
    /\ now = 0
    /\ AlertManagerInit
    /\ CollectorInit
    /\ DeviceInit
    /\ AnalyzerInit
    /\ RestInit

AnalyzerNext ==
    \/ analyze /\ UNCHANGED <<colVars, devVars, restVars>>
    \/ AnalyzerTick /\ UNCHANGED <<colVars, devVars, restVars>>

SpecAnalyzer == AnalyzerSpecInit /\ [][AnalyzerNext]_vars

\* the first analysis cycle of an analyzer that loaded any set of known IPs,
\* with any mail configuration
ChecksInit ==
    /\ now = 0
    /\ alert_history = <<>>
    /\ last_alert_time = [e \in AlertTypes |-> NoTime]
    /\ last_call = NoCall
    /\ smtp \in SmtpStates
    /\ last_email = "none"
    /\ CollectorInit
    /\ DeviceInit
    /\ \E stored \in SUBSET RecentDevices : AnalyzerLoaded(stored)
    /\ RestInit

ChecksNext ==
    AnalyzeChecks /\ UNCHANGED <<colVars, devVars, restVars>>

SpecChecks == ChecksInit /\ [][ChecksNext]_vars

\* the cycles of an analyzer constructed on any registry contents
HistorySpecInit ==
    /\ now = 0
    /\ alert_history = <<>>
    /\ last_alert_time = [e \in AlertTypes |-> NoTime]
    /\ last_call = NoCall
    /\ smtp = "up"
    /\ last_email = "none"
    /\ CollectorInit
    /\ DeviceInit
    /\ \E stored \in SUBSET RecentDevices : AnalyzerLoaded(stored)
    /\ RestInit

HistoryNext ==
    \/ AnalyzeHistory /\ UNCHANGED <<colVars, devVars, restVars>>
    \/ HistoryTick /\ UNCHANGED <<colVars, devVars, restVars>>

SpecHistory == HistorySpecInit /\ [][HistoryNext]_vars

\* the merge of every pair of scan results of at most MaxScanLen devices
MergeSpecInit ==
    /\ now = 0
    /\ AlertManagerInit
    /\ CollectorInit
    /\ DeviceInit
    /\ AnalyzerInit
    /\ arp_devices \in ScanLists("arp", MaxScanLen)
    /\ ping_devices \in ScanLists("ping", MaxScanLen)
    /\ merged = NotMerged
    /\ ManagerInit
    /\ WritersInit
    /\ ExtInit

MergeNext ==
    merge_scan_results
        /\ UNCHANGED <<amVars, colVars, devVars, saVars, mgrVars, wrVars, extVars>>

SpecMerge == MergeSpecInit /\ [][MergeNext]_vars

\* the manager's control thread and its scheduler threads
ManagerSpecInit ==
    /\ now = 0
    /\ AlertManagerInit
    /\ CollectorInit
    /\ DeviceInit
    /\ AnalyzerInit
    /\ MergeInit
    /\ ManagerInit
    /\ WritersInit
    /\ ExtInit

ManagerNext ==
    \/ manager_start
          /\ UNCHANGED <<amVars, colVars, devVars, saVars, mergeVars, wrVars, extVars>>
    \/ manager_stop
          /\ UNCHANGED <<amVars, colVars, devVars, saVars, mergeVars, wrVars, extVars>>
    \/ SchedulerJoinReturn
          /\ UNCHANGED <<amVars, colVars, devVars, saVars, mergeVars, wrVars, extVars>>
    \/ SchedulerJoinTimeout
          /\ UNCHANGED <<amVars, colVars, devVars, saVars, mergeVars, wrVars, extVars>>
    \/ SchedTestRunning
          /\ UNCHANGED <<amVars, colVars, devVars, saVars, mergeVars, wrVars, extVars>>
    \/ SchedRunPending
          /\ UNCHANGED <<amVars, colVars, devVars, saVars, mergeVars, wrVars, extVars>>
    \/ SchedRunJob
          /\ UNCHANGED <<amVars, colVars, devVars, saVars, mergeVars, wrVars, extVars>>
    \/ SchedAnalyzeReturn
          /\ UNCHANGED <<amVars, colVars, devVars, saVars, mergeVars, wrVars, extVars>>
    \/ SchedWake
          /\ UNCHANGED <<amVars, colVars, devVars, saVars, mergeVars, wrVars, extVars>>
    \/ ManagerTick
          /\ UNCHANGED <<amVars, colVars, devVars, saVars, mergeVars, wrVars, extVars>>

SpecManager == ManagerSpecInit /\ [][ManagerNext]_vars

\* threads reconciling devices with one registry
WritersSpecInit ==
    /\ now = 0
    /\ AlertManagerInit
    /\ CollectorInit
    /\ DeviceInit
    /\ AnalyzerInit
    /\ MergeInit
    /\ ManagerInit
    /\ WritersInit
    /\ ExtInit

WritersNext ==
    \/ WriterRead /\ UNCHANGED <<amVars, colVars, saVars, mergeVars, mgrVars, extVars>>
    \/ WriterWrite /\ UNCHANGED <<amVars, colVars, saVars, mergeVars, mgrVars, extVars>>
    \/ WriterTick /\ UNCHANGED <<amVars, colVars, saVars, mergeVars, mgrVars, extVars>>

SpecWriters == WritersSpecInit /\ [][WritersNext]_vars

\* the firings of a collector of each class
FiringSpecInit ==
    /\ now = 0
    /\ AlertManagerInit
    /\ CollectorInit
    /\ DeviceInit
    /\ AnalyzerInit
    /\ MergeInit
    /\ ManagerInit
    /\ WritersInit
    /\ \E kind \in CollectorKinds :
          firing = [kind |-> kind, pc |-> "idle", snapshot |-> 0, error |-> FALSE]
    /\ store_calls = <<>>
    /\ CallersInit
    /\ CtorInit

FiringNext ==
    \/ FireCollect
          /\ UNCHANGED <<now, amVars, colVars, devVars, saVars, mergeVars,
                         mgrVars, wrVars, atVars, ctorVars>>
    \/ FireProcess
          /\ UNCHANGED <<now, amVars, colVars, devVars, saVars, mergeVars,
                         mgrVars, wrVars, atVars, ctorVars>>
    \/ FireStore
          /\ UNCHANGED <<now, amVars, colVars, devVars, saVars, mergeVars,
                         mgrVars, wrVars, atVars, ctorVars>>

SpecFiring == FiringSpecInit /\ [][FiringNext]_vars

\* the components a specification of the last ones leaves at rest
othersVars == <<colVars, devVars, saVars, mergeVars, mgrVars, wrVars, fireVars>>

OthersInit ==
    /\ CollectorInit
    /\ DeviceInit
    /\ AnalyzerInit
    /\ MergeInit
    /\ ManagerInit
    /\ WritersInit
    /\ FiringInit

\* at most MaxCalls calls of trigger_alert from MaxCallers threads, a
\* reporting thread and the clock
CallersSpecInit ==
    /\ now = 0
    /\ AlertManagerInit
    /\ CallersInit
    /\ CtorInit
    /\ OthersInit

CallersNext ==
    \/ \E c \in Callers : CallEnter(c) /\ UNCHANGED <<othersVars, ctorVars>>
    \/ \E c \in Callers : CallCheck(c) /\ UNCHANGED <<othersVars, ctorVars>>
    \/ \E c \in Callers : CallAppend(c) /\ UNCHANGED <<othersVars, ctorVars>>
    \/ \E c \in Callers : CallStamp(c) /\ UNCHANGED <<othersVars, ctorVars>>
    \/ \E c \in Callers : CallNotify(c) /\ UNCHANGED <<othersVars, ctorVars>>
    \/ GetRecentAlerts /\ UNCHANGED <<othersVars, ctorVars>>
    \/ CallTick /\ UNCHANGED <<othersVars, ctorVars>>

SpecCallers == CallersSpecInit /\ [][CallersNext]_vars

\* the construction of a manager under every configuration
ConstructorSpecInit ==
    /\ now = 0
    /\ AlertManagerInit
    /\ CallersInit
    /\ ctor \in {NewManager(config) : config \in Configs}
    /\ OthersInit

ConstructorNext ==
    \/ CtorFields /\ UNCHANGED <<now, amVars, othersVars, atVars>>
    \/ CtorInitStorage /\ UNCHANGED <<now, amVars, othersVars, atVars>>
    \/ CtorInitCollector /\ UNCHANGED <<now, amVars, othersVars, atVars>>
    \/ CtorInitAnalyzers /\ UNCHANGED <<now, amVars, othersVars, atVars>>
    \/ CtorAlertManager /\ UNCHANGED <<now, amVars, othersVars, atVars>>
    \/ CtorScheduler /\ UNCHANGED <<now, amVars, othersVars, atVars>>

SpecConstructor == ConstructorSpecInit /\ [][ConstructorNext]_vars

(***************************************************************************)
(* Claims about the AlertManager (checked under SpecAlerts)                *)
(***************************************************************************)
SameKind(a, b) == a.event_type = b.event_type /\ a.severity = b.severity

\* C1: two medium alerts of one event_type never both pass less than 300 s
\* apart, and two low alerts of one event_type never both pass less than
\* 1800 s apart.
C1_ThrottlePerType ==
    \A i, j \in DOMAIN alert_history :
        (i < j /\ SameKind(alert_history[i], alert_history[j])) =>
            LET gap == alert_history[j].timestamp - alert_history[i].timestamp
            IN  /\ alert_history[i].severity = "medium" => gap >= MediumThrottle
                /\ alert_history[i].severity = "low" => gap >= LowThrottle

\* a medium alert was suppressed 4 minutes or less after a passed medium alert
\* of its event_type
C1_Witness ==
    /\ last_call.severity = "medium"
    /\ last_call.result = FALSE
    /\ \E i \in DOMAIN alert_history :
          /\ alert_history[i].event_type = last_call.event_type
          /\ alert_history[i].severity = "medium"
          /\ now - alert_history[i].timestamp = 240

\* every passed medium alert of event_type e is at least 300 s old
MediumsOld(e) ==
    \A k \in DOMAIN alert_history :
        (alert_history[k].event_type = e /\ alert_history[k].severity = "medium")
            => now - alert_history[k].timestamp >= MediumThrottle

\* every passed alert of event_type e, of any severity, is at least 300 s old
AllOld(e) ==
    \A k \in DOMAIN alert_history :
        alert_history[k].event_type = e
            => now - alert_history[k].timestamp >= MediumThrottle

\* C2 as stated: a medium alert fired at least 5 minutes after the passed
\* medium alerts of its event_type passes, whatever other trigger_alert calls
\* happened before or in between.
C2_Original ==
    [][\A e \in EventTypes :
          (/\ trigger_alert(e, "medium")
           /\ \E k \in DOMAIN alert_history :
                 /\ alert_history[k].event_type = e
                 /\ alert_history[k].severity = "medium"
           /\ MediumsOld(e))
          => last_call'.result = TRUE]_vars

\* C2 amended: a medium alert passes (returns True and is appended to the
\* history) whenever no alert of its event_type, of any severity, passed in
\* the 300 s before it.
C2_Amended ==
    [][\A e \in EventTypes :
          (trigger_alert(e, "medium") /\ AllOld(e))
          => /\ last_call'.result = TRUE
             /\ Len(alert_history') = Len(alert_history) + 1
             /\ alert_history'[Len(alert_history')] = AlertData(e, "medium", now)]_vars

\* two medium alerts of one event_type, fired 6 minutes apart, both passed
C2_Witness ==
    /\ Len(alert_history) = 2
    /\ SameKind(alert_history[1], alert_history[2])
    /\ alert_history[1].severity = "medium"
    /\ alert_history[2].timestamp - alert_history[1].timestamp = 360
    /\ last_call.result = TRUE

\* C3: a trigger_alert call with severity high returns True, appends the alert
\* to the history and sets the last-alert time of its event_type.
C3_HighNeverThrottled ==
    [][\A e \in EventTypes :
          trigger_alert(e, "high")
          => /\ last_call'.result = TRUE
             /\ alert_history' # <<>>
             /\ alert_history'[Len(alert_history')] = AlertData(e, "high", now)
             /\ last_alert_time'[e] = now]_vars

\* a high alert passed less than 300 s after another alert of its event_type
C3_Witness ==
    /\ Len(alert_history) = 2
    /\ alert_history[2].severity = "high"
    /\ alert_history[1].event_type = alert_history[2].event_type
    /\ alert_history[2].timestamp - alert_history[1].timestamp < MediumThrottle
    /\ last_alert_time[alert_history[2].event_type] = alert_history[2].timestamp
    /\ last_call = [event_type |-> alert_history[2].event_type,
                    severity |-> "high", result |-> TRUE]

\* C29: a throttled trigger_alert call (its throttle check fails) returns
\* False, leaves the alert history and the last-alert-time map as they were
\* and sends no e-mail: a suppressed alert does not extend the throttle
\* window of its event_type.
C29_ThrottledCallIsNoOp ==
    [][\A e \in EventTypes, s \in Severities :
          (/\ trigger_alert(e, s)
           /\ ~ShouldSendAlert(last_alert_time, e, s, now))
          => /\ last_call'.result = FALSE
             /\ alert_history' = alert_history
             /\ last_alert_time' = last_alert_time
             /\ last_email' = "none"]_vars

\* a low alert was suppressed 20 minutes after the one passed alert of its
\* event_type, whose time is still the last-alert time of the type
C29_Witness ==
    /\ last_call.severity = "low"
    /\ last_call.result = FALSE
    /\ last_email = "none"
    /\ Len(alert_history) = 1
    /\ alert_history[1].event_type = last_call.event_type
    /\ now - alert_history[1].timestamp = 1200
    /\ last_alert_time[last_call.event_type] = alert_history[1].timestamp

(***************************************************************************)
(* Claims about the AlertManager (checked under SpecBurst)                 *)
(***************************************************************************)
\* C17: the alert history never holds more than 100 entries; a passing
\* trigger_alert call appends its alert at the end and, when the history was
\* full, drops only the oldest entry, the others keeping their order; a
\* throttled call leaves the history as it is.
C17_HistoryBounded ==
    [][/\ Len(alert_history') <= HistoryLimit
       /\ \A e \in EventTypes, s \in Severities :
             trigger_alert(e, s)
             => IF last_call'.result
                THEN alert_history' =
                        IF Len(alert_history) < HistoryLimit
                        THEN Append(alert_history, AlertData(e, s, now))
                        ELSE Append(Tail(alert_history), AlertData(e, s, now))
                ELSE alert_history' = alert_history]_vars

\* the history is full and its oldest alerts have been dropped
C17_Witness ==
    /\ Len(alert_history) = HistoryLimit
    /\ alert_history[1].timestamp = 2
    /\ alert_history[HistoryLimit].timestamp = now
    /\ now = HistoryLimit + 1

\* C18: when the e-mail of a passing high or medium alert cannot be sent,
\* trigger_alert still returns True, the alert is appended to the history and
\* the last-alert time of its event_type is set, as when the e-mail is sent.
C18_DispatchFailureIgnored ==
    [][\A e \in EventTypes, s \in {"high", "medium"} :
          (/\ trigger_alert(e, s)
           /\ smtp = "down"
           /\ ShouldSendAlert(last_alert_time, e, s, now))
          => /\ last_email' = "failed"
             /\ last_call'.result = TRUE
             /\ alert_history' = AppendAlert(alert_history, AlertData(e, s, now))
             /\ last_alert_time' = [last_alert_time EXCEPT ![e] = now]]_vars

\* a medium alert passed while the mail server was down
C18_Witness ==
    /\ last_email = "failed"
    /\ last_call.severity = "medium"
    /\ last_call.result = TRUE
    /\ alert_history # <<>>
    /\ alert_history[Len(alert_history)] =
           AlertData(last_call.event_type, "medium", now)
    /\ last_alert_time[last_call.event_type] = now

(***************************************************************************)
(* Claims about the BaseCollector (checked under SpecCollector)            *)
(***************************************************************************)
\* loop thread t begins a collect() invocation in this step
BeginsCollect(t) == loop_pc[t] # "collecting" /\ loop_pc'[t] = "collecting"

\* C8: while running is False (after stop() signalled and until a later
\* start()), no loop thread begins a collect() invocation.
C8_NoCollectAfterStop ==
    [][\A t \in Threads : BeginsCollect(t) => running]_vars

\* C9: start() on a running collector is a no-op: no initial collect() is
\* begun, no loop thread is created, and running, the loop threads and the
\* last-collection time stay as they are.
C9_StartIdempotent ==
    [][(start /\ running)
        => /\ ctl_pc' = "idle"
           /\ UNCHANGED <<running, thread, last_collection_time, loop_pc, wake>>]_vars

\* start() was called on a collector whose loop thread is alive, and returned
C9_Witness ==
    /\ ctl_last = "start_noop"
    /\ ctl_pc = "idle"
    /\ running
    /\ thread # 0
    /\ Alive(thread)

\* C11: a collect() that raises, in a loop tick or in start()'s initial
\* collection, is caught: store_data is not called for that attempt and the
\* last-collection time is left unchanged; the loop thread of a failing tick
\* stays alive and polls again after its 1 s sleep, start() still launches
\* the loop thread and returns normally; and a poll that finds the interval
\* elapsed begins a collect().
C11_FailingCollectIsolated ==
    [][/\ \A t \in Threads :
            LoopCollectStep(t, "collect_raises")
            => /\ last_collection_time' = last_collection_time
               /\ tick'.stored = FALSE
               /\ running' = running
               /\ loop_pc'[t] = "sleeping"
               /\ wake'[t] = now + SleepTick
       /\ StartCollectStep("collect_raises")
            => /\ last_collection_time' = last_collection_time
               /\ tick'.stored = FALSE
               /\ running' = running
               /\ thread' # 0
               /\ loop_pc'[thread'] = "test_running"
               /\ ctl_last' = "start"
       /\ \A t \in Threads :
            (/\ loop_pc[t] = "test_elapsed"
             /\ loop_pc'[t] # "test_elapsed"
             /\ now - last_collection_time >= Interval)
            => loop_pc'[t] = "collecting"]_vars

\* the collect() of a loop thread raised, and the same thread has begun the
\* next collect()
C11_Witness ==
    \E t \in Threads :
        /\ tick.by = t /\ tick.outcome = "collect_raises" /\ ~tick.stored
        /\ loop_pc[t] = "collecting"
        /\ running

\* the initial collect() of start() raised and the loop thread it launched
\* has begun a collect()
C11_WitnessStart ==
    /\ tick.by = 0 /\ tick.outcome = "collect_raises" /\ ~tick.stored
    /\ ctl_last = "start"
    /\ thread # 0
    /\ loop_pc[thread] = "collecting"

\* C22: a stop() called as soon as start() returned (at the same clock
\* value, no loop collection since) returns within one polling tick of 1 s:
\* its join of the loop thread ends, one way or the other, at most
\* SleepTick after stop() was called.
C22_StopAfterStartWithinTick ==
    [][(/\ JoinReturn \/ JoinTimeout
        /\ ctl_last = "start"
        /\ tick.by = 0
        /\ tick.at = join_deadline - Interval)
       => now <= (join_deadline - Interval) + SleepTick]_vars

\* C23: a successful loop collection ends at least Interval after the
\* successful loop collection before it (the loop fires only when Interval
\* has elapsed since the last successful collection, and stamps the
\* collection time after store_data returned).
C23_LoopCollectionsSpaced ==
    [][\A t \in Threads :
          (/\ LoopCollectStep(t, "ok")
           /\ tick.by # 0
           /\ tick.outcome = "ok")
          => now - tick.at >= Interval]_vars

\* C10: at most one loop thread of the collector is alive.
C10_SingleLoop ==
    Cardinality({t \in Threads : Alive(t)}) <= 1

(***************************************************************************)
(* Claims about the device registry (checked under SpecDevices)            *)
(***************************************************************************)
\* the timestamps of the reconciled sightings of MAC m at IP ip
SightingTimes(m, ip) ==
    {sightings[i].timestamp : i \in {k \in DOMAIN sightings :
                                        sightings[k].mac = m /\ sightings[k].ip = ip}}

Min(S) == CHOOSE x \in S : \A y \in S : x <= y
Max(S) == CHOOSE x \in S : \A y \in S : x >= y

SightingsOf(m) == {i \in DOMAIN sightings : sightings[i].mac = m}
LastSighting(m) == sightings[Max(SightingsOf(m))]

Known(v) == v \notin {"", "Unknown", "unknown"}

\* C6: reconciling a sighting with an existing record never replaces a known
\* hostname, vendor or device_type by an empty or unknown one.
C6_KnownNeverLost ==
    [][\A m \in MACs :
          devices[m] # NoDevice =>
              /\ Known(devices[m].hostname) => Known(devices'[m].hostname)
              /\ Known(devices[m].vendor) => Known(devices'[m].vendor)
              /\ Known(devices[m].device_type) => Known(devices'[m].device_type)]_vars

MacsOf(l) == {l[i].mac : i \in DOMAIN l}

\* C12: the merged list holds exactly one record per MAC of the two scan
\* lists; the record of a MAC found by ARP is an ARP record of that MAC (its
\* ip is one ARP reported); and scan_method is "arp+ping" exactly for the
\* MACs that are in both lists.
C12_MergeExact ==
    merged.done =>
        LET d == merged.devices
        IN  /\ MacsOf(d) = MacsOf(arp_devices) \cup MacsOf(ping_devices)
            /\ \A i, j \in DOMAIN d : d[i].mac = d[j].mac => i = j
            /\ \A i \in DOMAIN d :
                  /\ d[i].mac \in MacsOf(arp_devices)
                        => \E k \in DOMAIN arp_devices :
                              /\ arp_devices[k].mac = d[i].mac
                              /\ arp_devices[k].ip = d[i].ip
                  /\ d[i].scan_method = "arp+ping"
                        <=> (/\ d[i].mac \in MacsOf(arp_devices)
                             /\ d[i].mac \in MacsOf(ping_devices))

(***************************************************************************)
(* Claims about the SecurityAnalyzer (checked under SpecAnalyzer)          *)
(***************************************************************************)
\* C4: two port_scan alerts of one MAC are never less than an hour apart.
C4_OnePortScanAlertPerHour ==
    \A i, j \in DOMAIN events :
        (/\ i < j
         /\ events[i].event_type = "port_scan"
         /\ events[j].event_type = "port_scan"
         /\ events[i].source_mac = events[j].source_mac)
        => events[j].timestamp - events[i].timestamp >= PortScanAlertGap

(***************************************************************************)
(* Claims about the checks of one analysis cycle (checked under SpecChecks)*)
(***************************************************************************)
\* the positions in calls of the trigger_alert calls for event_type
AlertsRaised(event_type) ==
    {i \in DOMAIN calls : calls[i].op = "trigger_alert" /\ calls[i].name = event_type}

Entered(check) ==
    \E i \in DOMAIN calls : calls[i].op = "check" /\ calls[i].name = check

StorageFailed == \E i \in DOMAIN calls : calls[i].op = "create_event_raises"

C16_ChecksIndependent ==
    calls # <<>> =>
        /\ \A n \in DOMAIN CheckNames : Entered(CheckNames[n])
        /\ calls[Len(calls)].op = "cleanup"

(***************************************************************************)
(* Claims about the manager's scheduler (checked under SpecManager)        *)
(***************************************************************************)
\* the scheduler threads inside _run_security_analysis -> analyze()
Analyzing == {t \in SchedThreads : sched_pc[t] = "analyzing"}

\* C19: the security analyzer never runs concurrently with itself: at no
\* time are two invocations of analyze() in progress, whatever start() and
\* stop() calls were made (a stop() whose join timed out included)
C19_SingleFlight == Cardinality(Analyzing) <= 1

(***************************************************************************)
(* Claims about concurrent reconciliations (checked under SpecWriters)     *)
(***************************************************************************)
\* the IPs of the ip_history stored for a MAC
HistoryIPs(m) ==
    IF devices[m] = NoDevice THEN {}
    ELSE {devices[m].ip_history[k].ip : k \in DOMAIN devices[m].ip_history}

\* C20: concurrent writers to one MAC record lose no IP history: once the
\* reconciliations that interleaved are over, the stored ip_history holds
\* the IP of every sighting reconciled for the MAC, earlier ones included
C20_NoLostHistory ==
    (\A w \in Writers : writers[w].pc = "idle") =>
        \A i \in DOMAIN sightings :
            sightings[i].ip \in HistoryIPs(sightings[i].mac)

(***************************************************************************)
(* Claims about the firings of a collector (checked under SpecFiring)      *)
(***************************************************************************)
\* the store_data calls made for snapshot s
StoresOf(s) == {i \in DOMAIN store_calls : store_calls[i].snapshot = s}

\* C28: the snapshot of one firing is written once: when the firing is over
\* store_data was called exactly once for it, for every collector class
C28_StoredOnce ==
    firing.pc = "idle" =>
        \A s \in 1..firing.snapshot : Cardinality(StoresOf(s)) = 1

(***************************************************************************)
(* Claims on the device history of the analyzer (SpecHistory)              *)
(***************************************************************************)

\* the cache as _cleanup_cache leaves it at clock t
CacheClean(cache, t) ==
    \A mac \in DOMAIN cache :
        /\ DOMAIN cache[mac].targets # {}
        /\ \A ip \in DOMAIN cache[mac].targets :
               t - cache[mac].targets[ip].first_seen <= CacheRetention

\* C24: after every call of analyze(), whatever the checks did, the
\* port-scan cache holds no target first seen more than 24 hours ago and no
\* MAC without targets
C24_CacheCleanAfterCycle ==
    last_run = now => CacheClean(port_scan_cache, now)

\* the trigger_alert calls of a cycle for an event type
AlertCalls(cs, event_type) ==
    {k \in DOMAIN cs : cs[k].op = "trigger_alert" /\ cs[k].name = event_type}

\* the device of the registry a new_device event was logged for
DeviceOf(event) ==
    CHOOSE d \in RecentDevices \cup {MovedDevice} :
        d.ip = event.source_ip /\ d.mac = event.source_mac

\* C25: a new device whose MAC the registry had given the analyzer with
\* another IP, or whose vendor or hostname is suspicious, gets a new_device
\* event of severity medium, any other new device one of severity low
C25_MovedDeviceIsSuspicious ==
    [][\A k \in (Len(events) + 1)..Len(events') :
          LET event == events'[k]
              moved == \E p \in associations :
                           p[1] = event.source_mac /\ p[2] # event.source_ip
          IN  event.event_type = "new_device" =>
                  event.severity = IF moved \/ SuspiciousName(DeviceOf(event))
                                   THEN "medium" ELSE "low"]_vars

\* C26: a cycle given a recent device whose IP is not known calls
\* trigger_alert for new_device, logs a new_device event for the IP, adds the
\* IP to known_ips and gives the MAC its device_history entry; known_ips
\* only grows; and a cycle given a device whose IP the analyzer was given
\* before raises no new_device alert
C26_NewDeviceOncePerIP ==
    [][\A in \in HistoryInputs : \A i \in DOMAIN in.devices :
          LET d == in.devices[i]
          IN  AnalyzeCycle(in) =>
                  /\ known_ips \subseteq known_ips'
                  /\ d.ip \notin known_ips =>
                         /\ AlertCalls(calls', "new_device") # {}
                         /\ \E k \in (Len(events) + 1)..Len(events') :
                                /\ events'[k].event_type = "new_device"
                                /\ events'[k].source_ip = d.ip
                         /\ d.ip \in known_ips'
                         /\ d.mac \in DOMAIN device_history'
                  /\ (\E p \in associations : p[2] = d.ip) =>
                         AlertCalls(calls', "new_device") = {}]_vars

\* the common destinations device_history holds for a MAC
CommonDestinations(history, mac) ==
    IF mac \in DOMAIN history THEN history[mac].common_destinations ELSE {}

\* C27: a cycle calls trigger_alert for suspicious_connection, with
\* severity medium, once for every connection of the device to a port of
\* SUSPICIOUS_PORTS whose pair is not a common destination of the device; the
\* pairs on other ports are common destinations afterwards; and no common
\* destination of any device is ever dropped
C27_SuspiciousUnlessCommon ==
    [][\A in \in HistoryInputs :
          LET contacts == UNION {{<<in.order[i], p>> : p \in in.ports[in.order[i]]} :
                                    i \in DOMAIN in.order}
              unusual == {c \in contacts :
                             /\ c[2] \in SuspiciousPorts
                             /\ c \notin CommonDestinations(device_history, in.mac)}
          IN  AnalyzeCycle(in) =>
                  /\ Cardinality(AlertCalls(calls', "suspicious_connection"))
                         = Cardinality(unusual)
                  /\ \A k \in AlertCalls(calls', "suspicious_connection") :
                         calls'[k].severity = "medium"
                  /\ {c \in contacts : c[2] \notin SuspiciousPorts}
                         \subseteq CommonDestinations(device_history', in.mac)
                  /\ \A m \in DOMAIN device_history :
                         CommonDestinations(device_history, m)
                             \subseteq CommonDestinations(device_history', m)]_vars

(***************************************************************************)
(* Claims on trigger_alert called from several threads (SpecCallers)       *)
(***************************************************************************)

\* C21: whatever the interleaving of the callers, the history is one that
\* calls made one after the other could leave: two medium alerts of one
\* event_type are never both in the history less than 300 s apart, and
\* every call that returned True has its alert in the history
C21_SerialOutcome ==
    /\ \A i, j \in DOMAIN alert_history :
          (/\ i < j
           /\ alert_history[i].event_type = alert_history[j].event_type
           /\ alert_history[i].severity = "medium"
           /\ alert_history[j].severity = "medium") =>
              alert_history[j].timestamp - alert_history[i].timestamp
                  >= MediumThrottle
    /\ \A k \in DOMAIN call_log :
          call_log[k].result =>
              \E i \in DOMAIN alert_history :
                  alert_history[i] = AlertData(call_log[k].event_type,
                                               call_log[k].severity,
                                               call_log[k].timestamp)

(***************************************************************************)
(* Claims on the construction of the manager (SpecConstructor)             *)
(***************************************************************************)

\* the constructors __init__ calls that may fail for reasons of their own
Collaborators ==
    {"influx", "mongo", "bandwidth", "devices", "performance", "security",
     "pihole", "unbound"}

====
